---- MODULE Spec2Model ----
(***************************************************************************)
(* A model of wbweb: the lazily reloading settings object, the             *)
(* configurable backend proxy, the Django-style manager and the hiccup     *)
(* renderer.                                                               *)
(*                                                                         *)
(* Python values are modelled as follows.  None is the string None, the    *)
(* booleans True and False are the strings "True" and "False", a module    *)
(* or a class is named by its dotted path, and a text (str) on which the   *)
(* code works character by character is a sequence of one-character        *)
(* strings.  An exception is a record with its type, the parts of its      *)
(* message, the party that constructed it and its __cause__.               *)
(***************************************************************************)
EXTENDS Integers, Sequences, FiniteSets, TLC

VARIABLES
    environ,    \* os.environ.get('WBWEB_SETTINGS_MODULE')
    settings,   \* the global Settings instance
    proxy,      \* a ConfigurableBackendProxy, or NoProxy before construction
    instances,  \* every backend instance created so far, in creation order
    last,       \* the outcome of the last operation, with the inputs it saw
    tree,       \* the hiccup tree given to HiccupRenderer.render
    out,        \* the text render returned
    pc,         \* "ready" before the call of render, "done" after it
    rows,       \* the rows of the model class's table
    ctx,        \* the session stored in session_context, or NoSession
    frames,     \* the session_context(...) blocks entered and not yet left
    classes,    \* the classes created by BaseMeta so far, in creation order
    registry,   \* the global PermissionRegistry's _permissions
    dbconfig,   \* database/config.py: _database_config, _engine, _session_maker
    querysets,  \* the AsyncQuerySet objects made so far, in creation order
    tasks       \* the concurrent get_or_create calls, each with its position

svars == <<environ, settings, proxy, instances, last>>
hvars == <<tree, out, pc>>
cvars == <<ctx, frames>>
gvars == <<registry, dbconfig, querysets, tasks>>
mvars == <<classes, gvars>>
dvars == <<rows, cvars, mvars>>
vars == <<svars, hvars, dvars>>

None == "None"

----------------------------------------------------------------------------
(* The importable modules and what they define.                            *)

DefaultsModule == "wbweb.core.config.defaults"
PartialOverride == "tests.test_settings_partial_override"
ProxyOverride == "tests.test_settings_proxy_override"
NonexistentModule == "nonexistent.module"

DefaultEngineFactory == "wbweb.core.database.engine_factory.DefaultEngineFactory"
RdsIamEngineFactory == "wbweb.core.database.engine_factory.RdsIamEngineFactory"
NonexistentBackend == "nonexistent.module.Backend"

\* src/wbweb/core/config/defaults.py
defaults ==
    [DATABASE_URL |-> "sqlite+aiosqlite:///wbweb.db",
     DATABASE_ENGINE_FACTORY |-> DefaultEngineFactory,
     DEBUG |-> "False",
     ENVIRONMENT |-> "production",
     APP_NAME |-> "wbweb Application",
     APP_DESCRIPTION |-> "A wbweb-powered web application"]

\* src/tests/test_settings_partial_override.py
test_settings_partial_override ==
    [DEBUG |-> "True",
     CUSTOM_SETTING |-> "from_test_child_project",
     APP_NAME |-> "Test Fallback Application"]

\* src/tests/test_settings_proxy_override.py
test_settings_proxy_override ==
    [DATABASE_ENGINE_FACTORY |-> RdsIamEngineFactory]

\* sys.modules after a successful import: the namespace of each module.
ModuleNamespace(path) ==
    CASE path = DefaultsModule -> defaults
      [] path = PartialOverride -> test_settings_partial_override
      [] path = ProxyOverride -> test_settings_proxy_override

Importable == {DefaultsModule, PartialOverride, ProxyOverride}

\* The values WBWEB_SETTINGS_MODULE takes: unset, empty, or a module path.
EnvValues == {None, "", PartialOverride, ProxyOverride, NonexistentModule}

\* The setting names read.
SettingNames ==
    {"DEBUG", "APP_NAME", "DATABASE_URL", "DATABASE_ENGINE_FACTORY",
     "CUSTOM_SETTING", "CUSTOM_ENGINE_FACTORY", "NONEXISTENT"}

NoExc == [type |-> None]

\* importlib.import_module(path): the module, or ModuleNotFoundError (an
\* ImportError) constructed by the interpreter.
import_module(path) ==
    IF path \in Importable
    THEN [module |-> path, exc |-> NoExc]
    ELSE [module |-> None,
          exc |-> [type |-> "ImportError",
                   msg |-> <<"No module named '", path, "'">>,
                   raised_by |-> "python",
                   cause |-> None]]

\* getattr(module, name, missing)
HasAttr(module, name) == name \in DOMAIN ModuleNamespace(module)
GetAttr(module, name) == ModuleNamespace(module)[name]

----------------------------------------------------------------------------
(* Settings (src/wbweb/core/config/settings.py)                            *)

Settings__init__ ==
    [_settings_module |-> None,
     _defaults_module |-> None,
     _cached_settings_module_path |-> None]

_should_reload_settings_never_on_change(s, env) ==
    s._settings_module = None

_should_reload_settings(s, env) ==
    LET current_settings_module_path == env
        is_settings_path_changed ==
            s._cached_settings_module_path /= current_settings_module_path
    IN  s._settings_module = None \/ is_settings_path_changed

\* The ImportError _load_settings raises from the ImportError e of the import.
SettingsImportError(current_settings_module_path, e) ==
    [type |-> "ImportError",
     msg |-> <<"Could not import settings module '",
               current_settings_module_path, "': ">> \o e.msg,
     raised_by |-> "wbweb",
     cause |-> e.type]

\* _load_settings with the path cached before the import is attempted.
_load_settings_caches_path_first(s, env) ==
    IF ~_should_reload_settings(s, env)
    THEN [s |-> s, exc |-> NoExc]
    ELSE
      LET AfterImport(s1, imp) ==
              IF imp.exc /= NoExc
              THEN [s |-> s1, exc |-> SettingsImportError(env, imp.exc)]
              ELSE [s |-> [s1 EXCEPT !._settings_module = imp.module],
                    exc |-> NoExc]
          Load(s1) ==
              IF env \notin {None, ""}
              THEN AfterImport(s1, import_module(env))
              ELSE [s |-> [s1 EXCEPT !._settings_module = DefaultsModule],
                    exc |-> NoExc]
      IN  Load([s EXCEPT !._defaults_module = DefaultsModule,
                         !._cached_settings_module_path = env])

\* Returns the settings object after the call and the exception raised, if any.
_load_settings(s, env) ==
    IF ~_should_reload_settings(s, env)
    THEN [s |-> s, exc |-> NoExc]
    ELSE
      LET AfterImport(s1, current_settings_module_path, imp) ==
              IF imp.exc /= NoExc
              THEN [s |-> s1,
                    exc |-> SettingsImportError(current_settings_module_path,
                                                imp.exc)]
              ELSE [s |-> [s1 EXCEPT
                             !._settings_module = imp.module,
                             !._cached_settings_module_path =
                                 current_settings_module_path],
                    exc |-> NoExc]
          Load(s1, current_settings_module_path) ==
              IF current_settings_module_path \notin {None, ""}
              THEN AfterImport(s1, current_settings_module_path,
                               import_module(current_settings_module_path))
              ELSE [s |-> [s1 EXCEPT
                             !._settings_module = DefaultsModule,
                             !._cached_settings_module_path =
                                 current_settings_module_path],
                    exc |-> NoExc]
      IN  Load([s EXCEPT !._defaults_module = DefaultsModule], env)

\* Settings.__getattr__ with the defaults consulted before the override module.
Settings__getattr__defaults_first(s, env, name) ==
    LET Lookup(s1, exc) ==
            IF exc /= NoExc
            THEN [s |-> s1, value |-> None, exc |-> exc]
            ELSE IF HasAttr(s1._defaults_module, name)
            THEN [s |-> s1, value |-> GetAttr(s1._defaults_module, name),
                  exc |-> NoExc]
            ELSE IF HasAttr(s1._settings_module, name)
            THEN [s |-> s1, value |-> GetAttr(s1._settings_module, name),
                  exc |-> NoExc]
            ELSE [s |-> s1, value |-> None,
                  exc |-> [type |-> "AttributeError",
                           msg |-> <<"Settings object has no attribute '",
                                     name, "'">>,
                           raised_by |-> "wbweb",
                           cause |-> None]]
        AfterLoad(loaded) == Lookup(loaded.s, loaded.exc)
    IN  AfterLoad(_load_settings(s, env))

\* Settings.__getattr__(name): the settings object after the call, and either
\* the value returned or the exception raised.
Settings__getattr__(s, env, name) ==
    LET Lookup(s1, exc) ==
            IF exc /= NoExc
            THEN [s |-> s1, value |-> None, exc |-> exc]
            ELSE IF s1._settings_module /= s1._defaults_module
                    /\ HasAttr(s1._settings_module, name)
            THEN [s |-> s1, value |-> GetAttr(s1._settings_module, name),
                  exc |-> NoExc]
            ELSE IF HasAttr(s1._defaults_module, name)
            THEN [s |-> s1, value |-> GetAttr(s1._defaults_module, name),
                  exc |-> NoExc]
            ELSE [s |-> s1, value |-> None,
                  exc |-> [type |-> "AttributeError",
                           msg |-> <<"Settings object has no attribute '",
                                     name, "'">>,
                           raised_by |-> "wbweb",
                           cause |-> None]]
        AfterLoad(loaded) == Lookup(loaded.s, loaded.exc)
    IN  AfterLoad(_load_settings(s, env))

----------------------------------------------------------------------------
(* ConfigurableBackendProxy (src/wbweb/core/utils/proxy.py)                *)

EngineFactoryModule == "wbweb.core.database.engine_factory"

\* The classes src/wbweb/core/database/engine_factory.py defines.
EngineFactoryClasses ==
    {"DefaultEngineFactory", "RdsIamEngineFactory", "SecretManagerEngineFactory"}

\* classpath.rsplit('.', 1) on the class paths of the model.
rsplit(classpath) ==
    CASE classpath = DefaultEngineFactory ->
            <<EngineFactoryModule, "DefaultEngineFactory">>
      [] classpath = RdsIamEngineFactory ->
            <<EngineFactoryModule, "RdsIamEngineFactory">>
      [] classpath = NonexistentBackend ->
            <<NonexistentModule, "Backend">>

\* A class is named by the module that defines it and its name.
ClassOf(module_path, class_name) == <<module_path, class_name>>

\* import_from_string(classpath): the class, or the exception raised.
import_from_string(classpath) ==
    LET Import(module_path, class_name) ==
            IF module_path /= EngineFactoryModule
            THEN [backend_class |-> None,
                  exc |-> [type |-> "ImportError",
                           msg |-> <<"No module named '", module_path, "'">>,
                           raised_by |-> "python",
                           cause |-> None]]
            ELSE IF class_name \notin EngineFactoryClasses
            THEN [backend_class |-> None,
                  exc |-> [type |-> "AttributeError",
                           msg |-> <<"module has no attribute '", class_name, "'">>,
                           raised_by |-> "python",
                           cause |-> None]]
            ELSE [backend_class |-> ClassOf(module_path, class_name),
                  exc |-> NoExc]
        Split(parts) == Import(parts[1], parts[2])
    IN  IF classpath = None
        THEN [backend_class |-> None,
              exc |-> [type |-> "AttributeError",
                       msg |-> <<"'NoneType' object has no attribute 'rsplit'">>,
                       raised_by |-> "python",
                       cause |-> None]]
        ELSE Split(rsplit(classpath))

NoBackend == 0

NoProxy == [_config_key |-> None]

ProxyKeys == {"DATABASE_ENGINE_FACTORY", "CUSTOM_ENGINE_FACTORY"}
ProxyDefaults == {DefaultEngineFactory, NonexistentBackend, None}

\* The attributes read through the proxy; the engine factories define
\* create_engine and nothing else.
BackendAttrs == {"create_engine"}
ProxyAttrNames == {"create_engine", "send"}

ConfigurableBackendProxy__init__(config_key, default_value) ==
    [default_value |-> default_value,
     _config_key |-> config_key,
     _backend |-> NoBackend,
     _cached_backend_path |-> None]

\* getattr(settings, name, default) with a default that is not None winning
\* over the setting.
getattr_settings_prefers_default(s, env, name, default) ==
    LET Default(r) ==
            IF r.exc.type = "AttributeError" \/ (r.exc = NoExc /\ default /= None)
            THEN [s |-> r.s, value |-> default, exc |-> NoExc]
            ELSE r
    IN  Default(Settings__getattr__(s, env, name))

\* getattr(settings, name, default): AttributeError gives the default, any
\* other exception propagates.
getattr_settings(s, env, name, default) ==
    LET Default(r) ==
            IF r.exc.type = "AttributeError"
            THEN [s |-> r.s, value |-> default, exc |-> NoExc]
            ELSE r
    IN  Default(Settings__getattr__(s, env, name))

_should_recreate_backend_only_when_none(p, current_backend_path) ==
    p._backend = NoBackend

\* _should_recreate_backend, given the path its getattr(settings, ...) read.
_should_recreate_backend(p, current_backend_path) ==
    LET is_backend_path_changed == p._cached_backend_path /= current_backend_path
    IN  p._backend = NoBackend \/ is_backend_path_changed

\* backend_class(): a new instance, the last of the instances.
NewInstance(insts, backend_class, path) ==
    Append(insts, [class |-> backend_class, path |-> path, _engines |-> {}])

\* _get_or_create_backend: the proxy, the settings and the instances after
\* the call, the backend returned or the exception raised.
_get_or_create_backend(p, s, env, insts) ==
    LET Raise(s1, exc) ==
            [p |-> p, s |-> s1, insts |-> insts, backend |-> NoBackend,
             exc |-> exc]
        Instantiate(s1, current_backend_path, imp) ==
            IF imp.exc /= NoExc
            THEN Raise(s1, imp.exc)
            ELSE [p |-> [p EXCEPT !._backend = Len(insts) + 1,
                                  !._cached_backend_path = current_backend_path],
                  s |-> s1,
                  insts |-> NewInstance(insts, imp.backend_class,
                                        current_backend_path),
                  backend |-> Len(insts) + 1,
                  exc |-> NoExc]
        Create(read) ==
            IF read.exc /= NoExc
            THEN Raise(read.s, read.exc)
            ELSE Instantiate(read.s, read.value, import_from_string(read.value))
        Check(check) ==
            IF check.exc /= NoExc
            THEN Raise(check.s, check.exc)
            ELSE IF ~_should_recreate_backend(p, check.value)
            THEN [p |-> p, s |-> check.s, insts |-> insts,
                  backend |-> p._backend, exc |-> NoExc]
            ELSE Create(getattr_settings(check.s, env, p._config_key,
                                         p.default_value))
    IN  Check(getattr_settings(s, env, p._config_key, p.default_value))

\* ConfigurableBackendProxy.__getattr__(name): the attribute of the backend.
Proxy__getattr__(p, s, env, insts, name) ==
    LET GetAttrOf(got) ==
            IF got.exc /= NoExc
            THEN got
            ELSE IF name \notin BackendAttrs
            THEN [got EXCEPT !.exc =
                     [type |-> "AttributeError",
                      msg |-> <<"object has no attribute '", name, "'">>,
                      raised_by |-> "python",
                      cause |-> None]]
            ELSE got
    IN  GetAttrOf(_get_or_create_backend(p, s, env, insts))

----------------------------------------------------------------------------
(* The operations of the settings and the proxy as actions.                *)

MaxInstances == 3

\* What the last operation saw and did: the variable's value and the
\* settings and proxy objects when it began, the value it returned or the
\* exception it raised, the backend it delegated to and whether it created it.
Outcome(op, name, value, exc, backend, created) ==
    [op |-> op, name |-> name, env |-> environ, value |-> value, exc |-> exc,
     backend |-> backend, created |-> created,
     settings_before |-> settings, proxy_before |-> proxy]

SettingsInit ==
    /\ environ = None
    /\ settings = Settings__init__
    /\ proxy = NoProxy
    /\ instances = <<>>
    /\ last = [op |-> "init"]

NoTree == [kind |-> "none"]

\* No tree is being rendered.
HiccupIdle ==
    /\ tree = NoTree
    /\ out = <<>>
    /\ pc = "idle"

\* An empty table.
NoRows == rows = {}

NoSession == [id |-> None]

\* session_context = SessionContext(): no session is stored.
NoClasses == classes = <<>>

\* No configuration: _database_config is None.
NoConfig == [database_url |-> None]

\* database/config.py after import: _database_config, _engine and
\* _session_maker are None.  The other fields are the history since the
\* last configure_database call: its arguments, the number of session
\* makers constructed, the session makers and the engines returned.
NotConfigured ==
    [_database_config |-> NoConfig,
     _engine |-> [factory |-> 0],
     _session_maker |-> [id |-> 0],
     latest |-> NoConfig,
     constructed |-> 0,
     makers |-> {},
     engines |-> {}]

\* The module-level objects after import: the registry is empty, the
\* database is not configured, no queryset and no task exists.
ModulesImported ==
    /\ registry = <<>>
    /\ dbconfig = NotConfigured
    /\ querysets = <<>>
    /\ tasks = <<>>

NoContext ==
    /\ ctx = NoSession
    /\ frames = <<>>

Init ==
    /\ SettingsInit
    /\ HiccupIdle
    /\ NoRows
    /\ NoContext
    /\ NoClasses
    /\ ModulesImported

\* os.environ['WBWEB_SETTINGS_MODULE'] = v, or os.environ.pop(...)
SetEnviron ==
    \E v \in EnvValues :
        /\ environ' = v
        /\ last' = [op |-> "environ"]
        /\ UNCHANGED <<settings, proxy, instances, hvars, dvars>>

\* settings.<name>
SettingsRead ==
    \E name \in SettingNames :
        \E r \in {Settings__getattr__(settings, environ, name)} :
            /\ settings' = r.s
            /\ last' = Outcome("settings", name, r.value, r.exc, NoBackend, FALSE)
            /\ UNCHANGED <<environ, proxy, instances, hvars, dvars>>

\* proxy = ConfigurableBackendProxy(config_key, default_value)
NewProxy ==
    /\ proxy = NoProxy
    /\ \E key \in ProxyKeys, default \in ProxyDefaults :
          /\ proxy' = ConfigurableBackendProxy__init__(key, default)
          /\ last' = Outcome("new_proxy", key, None, NoExc, NoBackend, FALSE)
    /\ UNCHANGED <<environ, settings, instances, hvars, dvars>>

\* proxy.<name>
ProxyAccess ==
    /\ proxy /= NoProxy
    /\ \E name \in ProxyAttrNames :
          \E r \in {Proxy__getattr__(proxy, settings, environ, instances, name)} :
              /\ Len(r.insts) <= MaxInstances
              /\ proxy' = r.p
              /\ settings' = r.s
              /\ instances' = r.insts
              /\ last' = Outcome("proxy", name, None, r.exc, r.backend,
                                 Len(r.insts) > Len(instances))
    /\ UNCHANGED <<environ, hvars, dvars>>

Next ==
    \/ SetEnviron
    \/ SettingsRead
    \/ NewProxy
    \/ ProxyAccess

Spec == Init /\ [][Next]_vars

----------------------------------------------------------------------------
(* Properties of the settings object and the proxy.                        *)

\* The module WBWEB_SETTINGS_MODULE names: the defaults when it is unset or
\* empty.
NamedModule(env) == IF env \in {None, ""} THEN DefaultsModule ELSE env

NamesImportable(env) == NamedModule(env) \in Importable

\* C1: every settings read returns what a settings object that never loaded
\* anything before returns under the variable's value at the moment of the
\* read, and leaves the module that value names as the loaded one: no read
\* made after the variable changed uses the module loaded before, and
\* changing the variable back gives the earlier values again.
C1_ReadFollowsEnviron ==
    (last.op = "settings" /\ NamesImportable(last.env)) =>
        /\ settings._settings_module = NamedModule(last.env)
        /\ settings._cached_settings_module_path = last.env
        /\ \E fresh \in {Settings__getattr__(Settings__init__, last.env,
                                             last.name)} :
              /\ last.value = fresh.value
              /\ last.exc = fresh.exc
              /\ settings = fresh.s

\* A read of DEBUG made with the variable unset, after the partial override
\* had been loaded, returns the default again.
C1_Witness ==
    /\ last.op = "settings"
    /\ last.name = "DEBUG"
    /\ last.env = None
    /\ last.settings_before._settings_module = PartialOverride
    /\ last.value = "False"

\* C2: a read of N returns the override module's value when the variable
\* names a module that defines N, otherwise the defaults' value when the
\* defaults define N (every read with the variable unset or empty is such a
\* read), and otherwise raises AttributeError "Settings object has no
\* attribute 'N'".
C2_OverrideThenDefaults ==
    (last.op = "settings" /\ NamesImportable(last.env)) =>
        IF last.env \notin {None, ""}
           /\ last.name \in DOMAIN ModuleNamespace(last.env)
        THEN last.exc = NoExc
             /\ last.value = ModuleNamespace(last.env)[last.name]
        ELSE IF last.name \in DOMAIN defaults
        THEN last.exc = NoExc /\ last.value = defaults[last.name]
        ELSE /\ last.exc.type = "AttributeError"
             /\ last.exc.msg = <<"Settings object has no attribute '",
                                 last.name, "'">>

\* A read of APP_NAME, which the partial override and the defaults both
\* define, returns the override's value.
C2_Witness ==
    /\ last.op = "settings"
    /\ last.env = PartialOverride
    /\ last.name = "APP_NAME"
    /\ last.value = "Test Fallback Application"

\* C3: while the variable names a module that cannot be imported, every read
\* raises ImportError "Could not import settings module ...", also after an
\* earlier successful load, and leaves the cached module and the cached path
\* as they were; a read made while the variable names an importable module
\* or is unset raises no ImportError.
C3_UnimportableModule ==
    last.op = "settings" =>
        IF NamesImportable(last.env)
        THEN last.exc.type /= "ImportError"
        ELSE /\ last.exc.type = "ImportError"
             /\ last.exc.msg[1] = "Could not import settings module '"
             /\ last.value = None
             /\ settings._settings_module =
                    last.settings_before._settings_module
             /\ settings._cached_settings_module_path =
                    last.settings_before._cached_settings_module_path

\* A read that raises ImportError although the partial override had been
\* loaded successfully before.
C3_Witness ==
    /\ last.op = "settings"
    /\ last.env = NonexistentModule
    /\ last.settings_before._settings_module = PartialOverride
    /\ last.exc.type = "ImportError"
    /\ settings._settings_module = PartialOverride

\* The class path configured under a proxy's key: the override module's
\* value, else the defaults' value, else the proxy's default_value.
ConfiguredPath(env, p) ==
    IF env \notin {None, ""} /\ p._config_key \in DOMAIN ModuleNamespace(env)
    THEN ModuleNamespace(env)[p._config_key]
    ELSE IF p._config_key \in DOMAIN defaults
    THEN defaults[p._config_key]
    ELSE p.default_value

\* The class a class path names, None when it names none.
ClassAt(path) ==
    IF path \in {DefaultEngineFactory, RdsIamEngineFactory}
    THEN <<EngineFactoryModule,
           IF path = DefaultEngineFactory THEN "DefaultEngineFactory"
                                          ELSE "RdsIamEngineFactory">>
    ELSE None

\* C4: an access made when the configured class path differs from the path
\* the current backend was created from (or when there is no backend yet)
\* creates a new instance of the configured class and delegates to it; an
\* access made while the configured path is unchanged delegates to the
\* backend already there and creates nothing.  The backend an access
\* delegates to was always created from the path configured at that access.
C4_RecreateOnPathChange ==
    (last.op = "proxy" /\ NamesImportable(last.env)) =>
        \E path \in {ConfiguredPath(last.env, last.proxy_before)} :
            IF ClassAt(path) = None
            THEN last.backend = NoBackend /\ ~last.created
                 /\ proxy = last.proxy_before
            ELSE /\ last.backend /= NoBackend
                 /\ last.backend = proxy._backend
                 /\ instances[last.backend].path = path
                 /\ instances[last.backend].class = ClassAt(path)
                 /\ IF last.proxy_before._backend = NoBackend
                       \/ last.proxy_before._cached_backend_path /= path
                    THEN /\ last.created
                         /\ last.backend = Len(instances)
                         /\ last.backend /= last.proxy_before._backend
                    ELSE /\ ~last.created
                         /\ last.backend = last.proxy_before._backend

\* An access that replaced a DefaultEngineFactory backend by a new
\* RdsIamEngineFactory after the settings module changed.
C4_Witness ==
    /\ last.op = "proxy"
    /\ last.created
    /\ last.proxy_before._backend /= NoBackend
    /\ last.proxy_before._cached_backend_path = DefaultEngineFactory
    /\ instances[last.backend].class = ClassAt(RdsIamEngineFactory)

\* C5: constructing a proxy creates no instance and loads no settings; after
\* every access that obtained a backend the cached path is the configured
\* path (override module, else defaults, else default_value); and whenever
\* the proxy has a backend, the cached path names the class of which the
\* backend is an instance.
C5_LazyAndCachedPath ==
    /\ last.op = "new_proxy" =>
          /\ proxy._backend = NoBackend
          /\ proxy._cached_backend_path = None
          /\ instances = <<>>
          /\ settings = last.settings_before
    /\ (last.op = "proxy" /\ last.backend /= NoBackend) =>
          proxy._cached_backend_path = ConfiguredPath(last.env, last.proxy_before)
    /\ (proxy /= NoProxy /\ proxy._backend /= NoBackend) =>
          /\ proxy._backend \in 1..Len(instances)
          /\ ClassAt(proxy._cached_backend_path) /= None
          /\ instances[proxy._backend].class = ClassAt(proxy._cached_backend_path)

\* An access through a key that neither the override module nor the defaults
\* define, served by the proxy's own default_value.
C5_Witness ==
    /\ last.op = "proxy"
    /\ last.env = PartialOverride
    /\ last.proxy_before._config_key = "CUSTOM_ENGINE_FACTORY"
    /\ last.created
    /\ proxy._cached_backend_path = DefaultEngineFactory
    /\ instances[proxy._backend].class = ClassAt(DefaultEngineFactory)

----------------------------------------------------------------------------
(* HiccupRenderer (src/wbweb/core/templates/hiccup.py)                     *)
(*                                                                         *)
(* A text is a sequence of characters.  A hiccup value is a record: a str, *)
(* a _RawHTML, a bool, a dict (its items in insertion order) or a list.    *)

Str(text) == [kind |-> "str", val |-> text]
Bool(b) == [kind |-> "bool", val |-> b]
Dict(items) == [kind |-> "dict", items |-> items]
List(items) == [kind |-> "list", items |-> items]

\* raw(content): _RawHTML(content)
raw(content) == [kind |-> "raw", content |-> content]

RECURSIVE Concat(_)
\* ''.join(texts)
Concat(texts) ==
    IF texts = <<>> THEN <<>> ELSE Head(texts) \o Concat(Tail(texts))

RECURSIVE Join(_, _)
\* sep.join(texts)
Join(sep, texts) ==
    IF texts = <<>> THEN <<>>
    ELSE IF Len(texts) = 1 THEN Head(texts)
    ELSE Head(texts) \o sep \o Join(sep, Tail(texts))

RECURSIVE replace(_, _, _)
\* text.replace(old, new) for a one-character old
replace(text, old, new) ==
    IF text = <<>> THEN <<>>
    ELSE (IF Head(text) = old THEN new ELSE <<Head(text)>>)
         \o replace(Tail(text), old, new)

amp == <<"&", "a", "m", "p", ";">>
lt == <<"&", "l", "t", ";">>
gt == <<"&", "g", "t", ";">>
quot == <<"&", "q", "u", "o", "t", ";">>
apos == <<"&", "#", "x", "2", "7", ";">>

\* _escape_html with the ampersand replaced after the other four characters.
_escape_html_ampersand_last(text) ==
    replace(replace(replace(replace(replace(text,
        "<", lt), ">", gt), "\"", quot), "'", apos), "&", amp)

\* HiccupRenderer._escape_html
_escape_html(text) ==
    replace(replace(replace(replace(replace(text,
        "&", amp), "<", lt), ">", gt), "\"", quot), "'", apos)

\* repr(text) of a str without backslashes and control characters
repr_str(text) ==
    IF (\E i \in 1..Len(text) : text[i] = "'")
       /\ ~(\E i \in 1..Len(text) : text[i] = "\"")
    THEN <<"\"">> \o text \o <<"\"">>
    ELSE <<"'">> \o replace(text, "'", <<"\\", "'">>) \o <<"'">>

\* str(value) of a str, a bool, and a list of at most one str
str(value) ==
    CASE value.kind = "str" -> value.val
      [] value.kind = "bool" -> value.val
      [] value.kind = "list" ->
            <<"[">>
            \o Join(<<",", " ">>,
                    [i \in 1..Len(value.items) |-> repr_str(value.items[i].val)])
            \o <<"]">>

unary_tags ==
    {<<"i", "m", "g">>, <<"b", "r">>, <<"h", "r">>,
     <<"e", "m", "b", "e", "d">>, <<"l", "i", "n", "k">>,
     <<"m", "e", "t", "a">>, <<"s", "o", "u", "r", "c", "e">>,
     <<"t", "r", "a", "c", "k">>, <<"w", "b", "r">>}

is_unary_tag(tag) == tag \in unary_tags

unary_attrs ==
    {<<"c", "h", "e", "c", "k", "e", "d">>,
     <<"d", "i", "s", "a", "b", "l", "e", "d">>,
     <<"m", "u", "l", "t", "i", "p", "l", "e">>,
     <<"r", "e", "a", "d", "o", "n", "l", "y">>,
     <<"r", "e", "q", "u", "i", "r", "e", "d">>}

is_unary_attr(k) == k \in unary_attrs

True == <<"T", "r", "u", "e">>
False == <<"F", "a", "l", "s", "e">>

render_attr(k, v) ==
    IF is_unary_attr(k) /\ v = Bool(True)
    THEN k
    ELSE k \o <<"=", "\"">> \o _escape_html(str(v)) \o <<"\"">>

\* HiccupRenderer._render_attributes
_render_attributes(attrs) ==
    IF attrs.items = <<>>
    THEN <<>>
    ELSE <<" ">>
         \o Join(<<" ">>,
                 [i \in 1..Len(attrs.items) |->
                     render_attr(attrs.items[i].k, attrs.items[i].v)])

\* hiccup_tree[n:]
Slice(items, n) == SubSeq(items, n + 1, Len(items))

RECURSIVE render(_)
\* HiccupRenderer.render
render(hiccup_tree) ==
    IF hiccup_tree.kind = "raw" THEN hiccup_tree.content
    ELSE IF hiccup_tree.kind = "str" THEN _escape_html(hiccup_tree.val)
    ELSE IF hiccup_tree.kind = "list" /\ Len(hiccup_tree.items) >= 2
    THEN LET Element(tag, attrs, children) ==
                 LET Emit(attrs_str, children_str) ==
                         IF is_unary_tag(tag)
                         THEN <<"<">> \o tag \o attrs_str \o <<"/", ">", "\n">>
                         ELSE <<"<">> \o tag \o attrs_str \o <<">">>
                              \o children_str
                              \o <<"<", "/">> \o tag \o <<">", "\n">>
                 IN  Emit(_render_attributes(attrs),
                          Join(<<"\n">>,
                               [i \in 1..Len(children) |-> render(children[i])]))
         IN  IF hiccup_tree.items[2].kind = "dict"
             THEN Element(str(hiccup_tree.items[1]), hiccup_tree.items[2],
                          Slice(hiccup_tree.items, 2))
             ELSE Element(str(hiccup_tree.items[1]), Dict(<<>>),
                          Slice(hiccup_tree.items, 1))
    ELSE str(hiccup_tree)

----------------------------------------------------------------------------
(* The trees rendered.                                                     *)

MaxTextLen == 2
MaxChildren == 2
MaxDepth == 2

Alphabet == {"&", "<", ">", "\"", "'", "a"}

\* The sequences over S of length at most n.
SeqsUpTo(S, n) == UNION {[1..k -> S] : k \in 0..n}

Texts == SeqsUpTo(Alphabet, MaxTextLen)

tag_p == <<"p">>
tag_br == <<"b", "r">>
tag_div == <<"d", "i", "v">>
tag_span == <<"s", "p", "a", "n">>
key_class == <<"c", "l", "a", "s", "s">>
key_title == <<"t", "i", "t", "l", "e">>
key_checked == <<"c", "h", "e", "c", "k", "e", "d">>

Attr(k, v) == [k |-> k, v |-> v]

\* Bare leaves: every text, as a str and wrapped by raw().
LeafInputs == {Str(text) : text \in Texts} \cup {raw(text) : text \in Texts}

AttrValues == {Str(text) : text \in Texts} \cup {Bool(True), Bool(False)}

AttrMaps ==
    {Dict(<<>>)}
    \cup {Dict(<<Attr(k, v)>>) : k \in {key_title, key_checked}, v \in AttrValues}
    \cup {Dict(<<Attr(key_title, Str(<<"<">>)), Attr(key_checked, Bool(True))>>)}

\* Elements with every attribute map, without and with a child.
AttrInputs ==
    {List(<<Str(tag), attrs>> \o cs) :
        tag \in {tag_p, tag_br}, attrs \in AttrMaps,
        cs \in {<<>>, <<Str(<<"a">>)>>}}

KidLeaves == {Str(<<"<">>), Str(<<"a", "&">>), raw(<<"<", "a", ">">>)}

RECURSIVE Kids(_)
\* The children of nested elements, to the given depth.
Kids(depth) ==
    IF depth = 0
    THEN KidLeaves
    ELSE KidLeaves
         \cup {List(<<Str(tag_p), Dict(<<>>), kid>>) : kid \in Kids(depth - 1)}
         \cup {List(<<Str(tag_br), Dict(<<>>)>>), List(<<Str(tag_p)>>)}

\* Elements without an attribute map, with an empty and with a non-empty
\* one, over every sequence of children.
NestedInputs ==
    {List(<<Str(tag)>> \o attrs \o cs) :
        tag \in {tag_p, tag_br},
        attrs \in {<<>>, <<Dict(<<>>)>>,
                   <<Dict(<<Attr(key_title, Str(<<"<">>))>>)>>},
        cs \in SeqsUpTo(Kids(MaxDepth - 1), MaxChildren)}

Hello == <<"H", "e", "l", "l", "o">>
World == <<"W", "o", "r", "l", "d">>
container == <<"c", "o", "n", "t", "a", "i", "n", "e", "r">>

\* ["div", {"class": "container"}, ["p", {}, "Hello"], ["span", {}, "World"]]
\* (src/tests/test_hiccup_renderer.py, test_render_nested_tags)
ExampleTree ==
    List(<<Str(tag_div), Dict(<<Attr(key_class, Str(container))>>),
           List(<<Str(tag_p), Dict(<<>>), Str(Hello)>>),
           List(<<Str(tag_span), Dict(<<>>), Str(World)>>)>>)

\* Lists of one string: ["<"] and the like.
ShortListInputs == {List(<<Str(text)>>) : text \in Texts}

HiccupInputs ==
    LeafInputs \cup AttrInputs \cup NestedInputs \cup ShortListInputs
    \cup {ExampleTree, List(<<>>)}

InitHiccup ==
    /\ SettingsInit
    /\ NoRows
    /\ NoContext
    /\ NoClasses
    /\ ModulesImported
    /\ tree \in HiccupInputs
    /\ out = <<>>
    /\ pc = "ready"

\* out = HiccupRenderer().render(tree)
Render ==
    /\ pc = "ready"
    /\ out' = render(tree)
    /\ pc' = "done"
    /\ UNCHANGED <<tree, svars, dvars>>

NextHiccup == Render

SpecHiccup == InitHiccup /\ [][NextHiccup]_vars

----------------------------------------------------------------------------
(* Properties of the renderer.                                             *)

\* The entity that stands for a character.
Entity(c) ==
    CASE c = "&" -> amp
      [] c = "<" -> lt
      [] c = ">" -> gt
      [] c = "\"" -> quot
      [] c = "'" -> apos
      [] OTHER -> <<c>>

\* The text with every character replaced by its entity, each once.
Entities(text) == Concat([i \in 1..Len(text) |-> Entity(text[i])])

IsElement(t) == t.kind = "list" /\ Len(t.items) >= 2
HasAttrs(t) == t.items[2].kind = "dict"
TagOf(t) == t.items[1].val
AttrsOf(t) == IF HasAttrs(t) THEN t.items[2] ELSE Dict(<<>>)
ChildrenOf(t) == IF HasAttrs(t) THEN Slice(t.items, 2) ELSE Slice(t.items, 1)

RECURSIVE RawLeaves(_)
\* The tree with every string leaf replaced by raw(its text in entities).
RawLeaves(t) ==
    IF t.kind = "str" THEN raw(Entities(t.val))
    ELSE IF IsElement(t)
    THEN List((IF HasAttrs(t) THEN <<t.items[1], t.items[2]>> ELSE <<t.items[1]>>)
              \o [i \in 1..Len(ChildrenOf(t)) |-> RawLeaves(ChildrenOf(t)[i])])
    ELSE t

RECURSIVE Elements(_)
\* The elements of a tree: itself and those below it.
Elements(t) ==
    IF IsElement(t)
    THEN {t} \cup UNION {Elements(ChildrenOf(t)[i]) : i \in 1..Len(ChildrenOf(t))}
    ELSE {}

\* The attribute text expected: a unary attribute that is True as its bare
\* key, any other as key="value in entities".
EscapedAttributes(attrs) ==
    Concat([i \in 1..Len(attrs.items) |->
              <<" ">> \o
              (IF attrs.items[i].k \in unary_attrs /\ attrs.items[i].v = Bool(True)
               THEN attrs.items[i].k
               ELSE attrs.items[i].k \o <<"=", "\"">>
                    \o Entities(str(attrs.items[i].v)) \o <<"\"">>)])

IsPrefix(s, text) == Len(s) <= Len(text) /\ SubSeq(text, 1, Len(s)) = s

\* C6: a string leaf is rendered as its text with each of & < > " ' replaced
\* once by its entity (no entity is escaped again), raw content is rendered
\* verbatim, every tree renders as the tree whose string leaves are replaced
\* by raw(their text in entities) -- so string siblings of a raw child are
\* escaped -- and every element, whatever its children, opens with its
\* attribute values in entities.
C6_EscapedExceptRaw ==
    pc = "done" =>
        /\ tree.kind = "str" => out = Entities(tree.val)
        /\ tree.kind = "raw" => out = tree.content
        /\ out = render(RawLeaves(tree))
        /\ \A e \in Elements(tree) :
              IsPrefix(<<"<">> \o TagOf(e) \o EscapedAttributes(AttrsOf(e))
                       \o (IF is_unary_tag(TagOf(e)) THEN <<"/">> ELSE <<">">>),
                       render(e))

\* ["p", {"title": "<"}, "<", raw("<a>")] rendered: the attribute value and
\* the string sibling escaped, the raw child verbatim.
C6_Witness ==
    /\ pc = "done"
    /\ tree = List(<<Str(tag_p), Dict(<<Attr(key_title, Str(<<"<">>))>>),
                     Str(<<"<">>), raw(<<"<", "a", ">">>)>>)
    /\ IsPrefix(<<"<", "p", " ", "t", "i", "t", "l", "e", "=", "\"",
                  "&", "l", "t", ";", "\"", ">", "&", "l", "t", ";">>, out)
    /\ \E i \in 1..Len(out) - 2 : SubSeq(out, i, i + 2) = <<"<", "a", ">">>

\* C7: a list [tag, attrs, child1, ..., childN] with a tag that is not
\* self-closing renders as exactly '<tag' + attributes + '>' + the children's
\* renderings with nothing between them + '</tag>' and nothing after it; the
\* example of test_render_nested_tags renders as
\* '<div class="container"><p>Hello</p><span>World</span></div>'.
C7_ExactConcatenation ==
    (pc = "done" /\ IsElement(tree) /\ ~is_unary_tag(TagOf(tree))) =>
        /\ out = <<"<">> \o TagOf(tree) \o _render_attributes(AttrsOf(tree))
                 \o <<">">>
                 \o Concat([i \in 1..Len(ChildrenOf(tree)) |->
                              render(ChildrenOf(tree)[i])])
                 \o <<"<", "/">> \o TagOf(tree) \o <<">">>
        /\ tree = ExampleTree =>
              out = <<"<">> \o tag_div \o <<" ">> \o key_class \o <<"=", "\"">>
                    \o container \o <<"\"", ">">>
                    \o <<"<", "p", ">">> \o Hello \o <<"<", "/", "p", ">">>
                    \o <<"<">> \o tag_span \o <<">">> \o World
                    \o <<"<", "/">> \o tag_span \o <<">">>
                    \o <<"<", "/">> \o tag_div \o <<">">>

\* C8: the attribute map is optional: a list [tag, child1, ..., childN] whose
\* first child is not an attribute map, the list [tag] included, renders as
\* [tag, {}, child1, ..., childN] does.
C8_AttributesOptional ==
    (pc = "done" /\ tree.kind = "list" /\ Len(tree.items) >= 1
     /\ (Len(tree.items) = 1 \/ ~HasAttrs(tree))) =>
        out = render(List(<<tree.items[1], Dict(<<>>)>> \o Tail(tree.items)))

\* C9: a list whose tag is self-closing renders as '<tag' + attributes + '/>'
\* and nothing else.
C9_SelfClosing ==
    (pc = "done" /\ tree.kind = "list" /\ Len(tree.items) >= 1
     /\ is_unary_tag(TagOf(tree))) =>
        out = <<"<">> \o TagOf(tree)
              \o (IF Len(tree.items) >= 2
                  THEN _render_attributes(AttrsOf(tree)) ELSE <<>>)
              \o <<"/", ">">>

----------------------------------------------------------------------------
(* Manager and get_session (src/wbweb/core/database/managers.py) over the  *)
(* global engine_factory (src/wbweb/core/database/engine_factory.py).      *)

MaxRows == 2

\* The model class: User(id, name), as in get_session's example.
Columns == {"id", "name"}
Names == {"John", "Jane"}

\* None where a model instance is expected.
NoRow == [id |-> 0]

\* Keyword arguments, in the order given: <<key, value>> pairs.
GetKwargs ==
    {<<>>} \cup {<<<<"name", n>>>> : n \in Names} \cup {<<<<"nonexistent", "John">>>>}
CreateKwargs ==
    {<<<<"name", n>>>> : n \in Names} \cup {<<<<"nonexistent", "John">>>>}

\* class DoesNotExist(ORMException), raised without arguments
DoesNotExist ==
    [type |-> "DoesNotExist", msg |-> <<>>, raised_by |-> "wbweb",
     cause |-> None]

\* sqlalchemy.exc.MultipleResultsFound, raised by scalar_one_or_none
MultipleResultsFound ==
    [type |-> "MultipleResultsFound",
     msg |-> <<"Multiple rows were found when one or none was required">>,
     raised_by |-> "sqlalchemy",
     cause |-> None]

\* getattr(self.model_class, key) for a key that is not a column
ModelAttributeError(key) ==
    [type |-> "AttributeError",
     msg |-> <<"type object 'User' has no attribute '", key, "'">>,
     raised_by |-> "python",
     cause |-> None]

\* self.model_class(**kwargs) for a key that is not a column: the
\* declarative constructor of SQLAlchemy
ModelTypeError(key) ==
    [type |-> "TypeError",
     msg |-> <<"'", key, "' is an invalid keyword argument for User">>,
     raised_by |-> "sqlalchemy",
     cause |-> None]

\* What connecting through an engine of RdsIamEngineFactory raises for the
\* sqlite URL of the settings: do_connect calls boto3 for a token (no
\* credentials), or hands sqlite a password it does not accept.
RdsConnectErrors ==
    {[type |-> "NoCredentialsError",
      msg |-> <<"Unable to locate credentials">>,
      raised_by |-> "boto3",
      cause |-> None],
     [type |-> "TypeError",
      msg |-> <<"connect() got an unexpected keyword argument 'password'">>,
      raised_by |-> "python",
      cause |-> None]}

\* What an awaited session method raises when the database fails.
DbError ==
    [type |-> "OperationalError", msg |-> <<"Database error">>,
     raised_by |-> "sqlalchemy", cause |-> None]

\* The awaited session methods.
IoSteps == {"execute", "merge", "flush", "refresh", "commit"}

\* What the surroundings do to one operation made of the steps: whether
\* boto3 can be imported, what connecting through an RDS engine raises, and
\* the awaited session method that fails, if any.
Surroundings(steps) ==
    {[boto3_installed |-> TRUE, connect_exc |-> e, fail |-> None] :
        e \in RdsConnectErrors}
    \cup {[boto3_installed |-> FALSE,
           connect_exc |-> CHOOSE e \in RdsConnectErrors : TRUE,
           fail |-> None]}
    \cup {[boto3_installed |-> TRUE,
           connect_exc |-> CHOOSE e \in RdsConnectErrors : TRUE,
           fail |-> steps[i]] : i \in {j \in 1..Len(steps) : steps[j] \in IoSteps}}

NoEngine == [factory |-> NoBackend]

RdsIamClass == ClassOf(EngineFactoryModule, "RdsIamEngineFactory")

\* <factory instance>.create_engine(database_url): the instances after the
\* call (the instance's _engines holds the URLs it has an engine for), the
\* engine or the exception raised.  RdsIamEngineFactory imports boto3 first.
create_engine(insts, backend, database_url, boto3_installed) ==
    LET Engine == [factory |-> backend, url |-> database_url,
                   class |-> insts[backend].class]
    IN  IF database_url \in insts[backend]._engines
        THEN [insts |-> insts, engine |-> Engine, exc |-> NoExc]
        ELSE IF insts[backend].class = RdsIamClass /\ ~boto3_installed
        THEN [insts |-> insts, engine |-> NoEngine,
              exc |-> import_module("boto3").exc]
        ELSE [insts |-> [insts EXCEPT ![backend]._engines = @ \cup {database_url}],
              engine |-> Engine, exc |-> NoExc]

\* session_maker(): a session that did not exist before, bound to the
\* engine; nth tells the sessions one operation makes apart.
NewSession(engine, nth) ==
    [id |-> IF nth = 1 THEN "new1" ELSE "new2", engine |-> engine]

\* get_session(): engine_factory.create_engine is looked up first, then
\* settings.DATABASE_URL is read, then create_engine is called and a
\* session is made for the engine.  The session context is not consulted.
get_session(p, s, env, insts, boto3_installed, nth) ==
    LET Raise(p1, s1, insts1, exc) ==
            [p |-> p1, s |-> s1, insts |-> insts1, session |-> NoSession,
             exc |-> exc]
        Made(p1, s1, made) ==
            [p |-> p1, s |-> s1, insts |-> made.insts,
             session |-> IF made.exc = NoExc
                         THEN NewSession(made.engine, nth) ELSE NoSession,
             exc |-> made.exc]
        WithUrl(got, read) ==
            IF read.exc /= NoExc
            THEN Raise(got.p, read.s, got.insts, read.exc)
            ELSE Made(got.p, read.s,
                      create_engine(got.insts, got.backend, read.value,
                                    boto3_installed))
        WithFactory(got) ==
            IF got.exc /= NoExc
            THEN Raise(got.p, got.s, got.insts, got.exc)
            ELSE WithUrl(got, Settings__getattr__(got.s, env, "DATABASE_URL"))
    IN  WithFactory(Proxy__getattr__(p, s, env, insts, "create_engine"))

\* What step i of the steps raises on the session.
StepExc(session, steps, i, io) ==
    IF steps[i] \notin IoSteps THEN NoExc
    ELSE IF session.engine.class = RdsIamClass THEN io.connect_exc
    ELSE IF steps[i] = io.fail THEN DbError
    ELSE NoExc

\* The first step that raises, 0 when none does.
FirstFailure(session, steps, io) ==
    IF \A i \in 1..Len(steps) : StepExc(session, steps, i, io) = NoExc
    THEN 0
    ELSE CHOOSE i \in 1..Len(steps) :
            /\ StepExc(session, steps, i, io) /= NoExc
            /\ \A j \in 1..(i - 1) : StepExc(session, steps, j, io) = NoExc

\* A call made in the body of 'async with session': a method of the
\* session, or an assignment to the instance.
Call(session, op) ==
    [session |-> IF op = "setattr" THEN None ELSE session.id, op |-> op]

\* async with session: <steps>.  The steps run in order up to the first
\* that raises; AsyncSession.__aexit__ then closes the session.  The calls
\* made and the exception raised; done is the number of steps completed.
AsyncWith(session, steps, io) ==
    LET Ran(k) ==
            [log |-> [i \in 1..(IF k = 0 THEN Len(steps) ELSE k) |->
                        Call(session, steps[i])]
                     \o <<Call(session, "close")>>,
             done |-> IF k = 0 THEN Len(steps) ELSE k - 1,
             exc |-> IF k = 0 THEN NoExc ELSE StepExc(session, steps, k, io)]
    IN  Ran(FirstFailure(session, steps, io))

\* The first key of kwargs that is not a column, or None.
FirstBadKey(kwargs) ==
    IF \A i \in 1..Len(kwargs) : kwargs[i][1] \in Columns
    THEN None
    ELSE kwargs[CHOOSE i \in 1..Len(kwargs) :
                   /\ kwargs[i][1] \notin Columns
                   /\ \A j \in 1..(i - 1) : kwargs[j][1] \in Columns][1]

\* The rows select(model_class).where(key == value)... selects.
Select(table, kwargs) ==
    {r \in table : \A i \in 1..Len(kwargs) : r[kwargs[i][1]] = kwargs[i][2]}

\* result.scalar_one_or_none()
scalar_one_or_none(result) ==
    IF result = {}
    THEN [obj |-> NoRow, exc |-> NoExc]
    ELSE IF Cardinality(result) = 1
    THEN [obj |-> CHOOSE r \in result : TRUE, exc |-> NoExc]
    ELSE [obj |-> NoRow, exc |-> MultipleResultsFound]

\* session.execute(stmt)
GetSteps == <<"execute">>

\* Manager.get returning None when no row matches.
Manager_get_returns_none(p, s, env, insts, table, kwargs, io, nth) ==
    LET Ret(sess, value, exc, log) ==
            [p |-> sess.p, s |-> sess.s, insts |-> sess.insts,
             value |-> value, exc |-> exc, log |-> log]
        Found(sess, ran, one) == Ret(sess, one.obj, one.exc, ran.log)
        Executed(sess, ran) ==
            IF ran.exc /= NoExc
            THEN Ret(sess, NoRow, ran.exc, ran.log)
            ELSE Found(sess, ran, scalar_one_or_none(Select(table, kwargs)))
        Query(sess, bad) ==
            IF sess.exc /= NoExc
            THEN Ret(sess, NoRow, sess.exc, <<>>)
            ELSE IF bad /= None
            THEN Ret(sess, NoRow, ModelAttributeError(bad),
                     <<Call(sess.session, "close")>>)
            ELSE Executed(sess, AsyncWith(sess.session, GetSteps, io))
    IN  Query(get_session(p, s, env, insts, io.boto3_installed, nth),
              FirstBadKey(kwargs))

\* Manager.get(**kwargs): the proxy, settings and instances after the call,
\* the instance returned or the exception raised, the calls made on the
\* session.
Manager_get(p, s, env, insts, table, kwargs, io, nth) ==
    LET Ret(sess, value, exc, log) ==
            [p |-> sess.p, s |-> sess.s, insts |-> sess.insts,
             value |-> value, exc |-> exc, log |-> log]
        Found(sess, ran, one) ==
            IF one.exc /= NoExc
            THEN Ret(sess, NoRow, one.exc, ran.log)
            ELSE IF one.obj = NoRow
            THEN Ret(sess, NoRow, DoesNotExist, ran.log)
            ELSE Ret(sess, one.obj, NoExc, ran.log)
        Executed(sess, ran) ==
            IF ran.exc /= NoExc
            THEN Ret(sess, NoRow, ran.exc, ran.log)
            ELSE Found(sess, ran, scalar_one_or_none(Select(table, kwargs)))
        Query(sess, bad) ==
            IF sess.exc /= NoExc
            THEN Ret(sess, NoRow, sess.exc, <<>>)
            ELSE IF bad /= None
            THEN Ret(sess, NoRow, ModelAttributeError(bad),
                     <<Call(sess.session, "close")>>)
            ELSE Executed(sess, AsyncWith(sess.session, GetSteps, io))
    IN  Query(get_session(p, s, env, insts, io.boto3_installed, nth),
              FirstBadKey(kwargs))

\* key in kwargs
KwHas(kwargs, key) == \E i \in 1..Len(kwargs) : kwargs[i][1] = key

\* kwargs.get(key): None for a missing key
KwGet(kwargs, key) ==
    IF KwHas(kwargs, key)
    THEN kwargs[CHOOSE i \in 1..Len(kwargs) : kwargs[i][1] = key][2]
    ELSE None

\* The id the database gives the next row.
NextId(table) ==
    IF table = {} THEN 1
    ELSE 1 + CHOOSE m \in {r.id : r \in table} : \A r \in table : r.id <= m

\* The row of an instance built from kwargs, with the id the flush gives it.
NewRow(table, kwargs) ==
    [id |-> NextId(table), name |-> KwGet(kwargs, "name")]

\* session.add(instance) with commit called right after the flush.
CreateSteps_commit_before_refresh == <<"add", "flush", "commit", "refresh">>

\* session.add(instance); flush(); refresh(instance); commit()
CreateSteps == <<"add", "flush", "refresh", "commit">>

\* Manager.create(**kwargs): as Manager.get, and the table after the call.
\* The row is in the table once the commit has completed.
Manager_create(p, s, env, insts, table, kwargs, io, nth) ==
    LET Ret(sess, table1, value, exc, log) ==
            [p |-> sess.p, s |-> sess.s, insts |-> sess.insts,
             table |-> table1, value |-> value, exc |-> exc, log |-> log]
        Ran(sess, ran) ==
            IF ran.exc /= NoExc
            THEN Ret(sess, table, NoRow, ran.exc, ran.log)
            ELSE Ret(sess, table \cup {NewRow(table, kwargs)},
                     NewRow(table, kwargs), NoExc, ran.log)
        Insert(sess, bad) ==
            IF sess.exc /= NoExc
            THEN Ret(sess, table, NoRow, sess.exc, <<>>)
            ELSE IF bad /= None
            THEN Ret(sess, table, NoRow, ModelTypeError(bad),
                     <<Call(sess.session, "close")>>)
            ELSE Ran(sess, AsyncWith(sess.session, CreateSteps, io))
    IN  Insert(get_session(p, s, env, insts, io.boto3_installed, nth),
               FirstBadKey(kwargs))

\* What the last Manager operation saw and did.
DbOutcome(op, kwargs, value, exc, log) ==
    [op |-> op, kwargs |-> kwargs, env |-> environ, value |-> value,
     exc |-> exc, log |-> log, rows_before |-> rows, ctx_before |-> ctx]

\* The module engine_factory imported: the global proxy is constructed, the
\* table is empty.
InitDb ==
    /\ environ = None
    /\ settings = Settings__init__
    /\ proxy = ConfigurableBackendProxy__init__("DATABASE_ENGINE_FACTORY",
                                                DefaultEngineFactory)
    /\ instances = <<>>
    /\ last = [op |-> "init"]
    /\ HiccupIdle
    /\ NoRows
    /\ NoContext
    /\ NoClasses
    /\ ModulesImported

\* await User.objects.get(**kwargs)
ManagerGet ==
    \E kwargs \in GetKwargs, io \in Surroundings(GetSteps) :
        \E r \in {Manager_get(proxy, settings, environ, instances, rows,
                              kwargs, io, 1)} :
            /\ Len(r.insts) <= MaxInstances
            /\ proxy' = r.p
            /\ settings' = r.s
            /\ instances' = r.insts
            /\ last' = DbOutcome("get", kwargs, r.value, r.exc, r.log)
            /\ UNCHANGED <<environ, rows, cvars, mvars, hvars>>

\* await User.objects.create(**kwargs)
ManagerCreate ==
    \E kwargs \in CreateKwargs, io \in Surroundings(CreateSteps) :
        \E r \in {Manager_create(proxy, settings, environ, instances, rows,
                                 kwargs, io, 1)} :
            /\ Len(r.insts) <= MaxInstances
            /\ Cardinality(r.table) <= MaxRows
            /\ proxy' = r.p
            /\ settings' = r.s
            /\ instances' = r.insts
            /\ rows' = r.table
            /\ last' = DbOutcome("create", kwargs, r.value, r.exc, r.log)
            /\ UNCHANGED <<environ, cvars, mvars, hvars>>

NextDb ==
    \/ SetEnviron
    \/ SettingsRead
    \/ ManagerGet
    \/ ManagerCreate

SpecDb == InitDb /\ [][NextDb]_vars

----------------------------------------------------------------------------
(* Database configuration (src/wbweb/core/database/config.py).             *)

\* The engine factory instances made while the configuration is used.
MaxFactories == 2

PostgresUrl == "postgresql+asyncpg://db/app"

\* The arguments of configure_database.
DatabaseUrls == {defaults.DATABASE_URL, PostgresUrl}
EngineKwargs == {<<>>, <<<<"pool_size", "5">>>>}

NoSessionMaker == [id |-> 0]

NoConfigurationError ==
    [type |-> "RuntimeError",
     msg |-> <<"No database configuration set",
               ". Call configure_database() during application startup to provide database settings.">>,
     raised_by |-> "wbweb", cause |-> None]

\* configure_database(database_url, debug, **engine_kwargs)
configure_database(cfg, database_url, debug, engine_kwargs) ==
    [_database_config |-> [database_url |-> database_url, debug |-> debug,
                           engine_kwargs |-> engine_kwargs],
     _engine |-> NoEngine,
     _session_maker |-> NoSessionMaker,
     latest |-> [database_url |-> database_url, debug |-> debug,
                 engine_kwargs |-> engine_kwargs],
     constructed |-> 0,
     makers |-> {},
     engines |-> {}]

\* get_database_config returning None when nothing is configured.
get_database_config_returns_none(cfg) ==
    IF cfg._database_config = NoConfig
    THEN [value |-> [database_url |-> None, debug |-> FALSE,
                     engine_kwargs |-> <<>>],
          exc |-> NoExc]
    ELSE [value |-> cfg._database_config, exc |-> NoExc]

\* get_database_config()
get_database_config(cfg) ==
    IF cfg._database_config = NoConfig
    THEN [value |-> NoConfig, exc |-> NoConfigurationError]
    ELSE [value |-> cfg._database_config, exc |-> NoExc]

\* What engine creation is called with: engine_factory.create_engine gets
\* the URL only, so the engine has SQLAlchemy's default echo and no further
\* keyword arguments; final_kwargs is computed and not used.
EngineArguments(database_url, final_kwargs) ==
    [url |-> database_url, echo |-> FALSE, kwargs |-> <<>>]

\* get_engine(): the configuration, proxy, settings and instances after the
\* call, the engine or the exception, whether the factory created the
\* engine in this call, and the arguments of its creation.
get_engine(cfg, p, s, env, insts, boto3_installed) ==
    LET Ret(cfg1, p1, s1, insts1, engine, exc, created, args) ==
            [cfg |-> cfg1, p |-> p1, s |-> s1, insts |-> insts1,
             value |-> engine, exc |-> exc, created |-> created,
             args |-> args]
        NoArgs == [url |-> None]
        Made(got, made, url, final_kwargs) ==
            IF made.exc /= NoExc
            THEN Ret(cfg, got.p, got.s, made.insts, NoEngine, made.exc, FALSE,
                     NoArgs)
            ELSE Ret([cfg EXCEPT !._engine = made.engine,
                                 !.engines = @ \cup {made.engine}],
                     got.p, got.s, made.insts, made.engine, NoExc,
                     made.insts /= got.insts,
                     EngineArguments(url, final_kwargs))
        WithFactory(config, got) ==
            IF got.exc /= NoExc
            THEN Ret(cfg, got.p, got.s, got.insts, NoEngine, got.exc, FALSE,
                     NoArgs)
            ELSE Made(got,
                      create_engine(got.insts, got.backend,
                                    config.database_url, boto3_installed),
                      config.database_url,
                      [echo |-> config.debug, kwargs |-> config.engine_kwargs])
        WithConfig(config) ==
            IF config.exc /= NoExc
            THEN Ret(cfg, p, s, insts, NoEngine, config.exc, FALSE, NoArgs)
            ELSE WithFactory(config.value,
                             Proxy__getattr__(p, s, env, insts, "create_engine"))
    IN  IF cfg._engine = NoEngine
        THEN WithConfig(get_database_config(cfg))
        ELSE Ret([cfg EXCEPT !.engines = @ \cup {cfg._engine}],
                 p, s, insts, cfg._engine, NoExc, FALSE, NoArgs)

\* async_sessionmaker(engine, class_=AsyncSession, expire_on_commit=False)
async_sessionmaker(engine, nth) ==
    [id |-> nth, engine |-> engine, class_ |-> "AsyncSession",
     expire_on_commit |-> FALSE]

\* get_async_session_maker constructing a session maker at every call.
get_async_session_maker_uncached(cfg, p, s, env, insts, boto3_installed) ==
    LET Made(got) ==
            IF got.exc /= NoExc
            THEN [got EXCEPT !.value = NoSessionMaker]
            ELSE LET maker == async_sessionmaker(got.value,
                                                 got.cfg.constructed + 1)
                 IN  [got EXCEPT !.value = maker,
                                 !.cfg._session_maker = maker,
                                 !.cfg.constructed = @ + 1,
                                 !.cfg.makers = @ \cup {maker}]
    IN  Made(get_engine(cfg, p, s, env, insts, boto3_installed))

\* get_async_session_maker()
get_async_session_maker(cfg, p, s, env, insts, boto3_installed) ==
    LET Made(got) ==
            IF got.exc /= NoExc
            THEN [got EXCEPT !.value = NoSessionMaker]
            ELSE LET maker == async_sessionmaker(got.value,
                                                 got.cfg.constructed + 1)
                 IN  [got EXCEPT !.value = maker,
                                 !.cfg._session_maker = maker,
                                 !.cfg.constructed = @ + 1,
                                 !.cfg.makers = @ \cup {maker}]
    IN  IF cfg._session_maker = NoSessionMaker
        THEN Made(get_engine(cfg, p, s, env, insts, boto3_installed))
        ELSE [cfg |-> [cfg EXCEPT !.makers = @ \cup {cfg._session_maker}],
              p |-> p, s |-> s, insts |-> insts,
              value |-> cfg._session_maker, exc |-> NoExc, created |-> FALSE,
              args |-> [url |-> None]]

\* What the last call of database/config.py saw and did.
ConfigOutcome(op, r) ==
    [op |-> op, env |-> environ, value |-> r.value, exc |-> r.exc,
     created |-> r.created, args |-> r.args, dbconfig_before |-> dbconfig]

\* configure_database(database_url, debug, **engine_kwargs)
ConfigureDatabase ==
    \E database_url \in DatabaseUrls, debug \in BOOLEAN,
       engine_kwargs \in EngineKwargs :
        /\ dbconfig' = configure_database(dbconfig, database_url, debug,
                                          engine_kwargs)
        /\ last' = [op |-> "configure_database", dbconfig_before |-> dbconfig]
        /\ UNCHANGED <<environ, settings, proxy, instances, hvars, rows,
                       cvars, classes, registry, querysets, tasks>>

\* get_database_config()
GetDatabaseConfig ==
    \E r \in {get_database_config(dbconfig)} :
        /\ last' = [op |-> "get_database_config", value |-> r.value,
                    exc |-> r.exc, dbconfig_before |-> dbconfig]
        /\ UNCHANGED <<environ, settings, proxy, instances, hvars, dvars>>

\* get_engine()
GetEngine ==
    \E boto3_installed \in BOOLEAN :
        \E r \in {get_engine(dbconfig, proxy, settings, environ, instances,
                             boto3_installed)} :
            /\ Len(r.insts) <= MaxFactories
            /\ dbconfig' = r.cfg
            /\ proxy' = r.p
            /\ settings' = r.s
            /\ instances' = r.insts
            /\ last' = ConfigOutcome("get_engine", r)
            /\ UNCHANGED <<environ, hvars, rows, cvars, classes, registry,
                           querysets, tasks>>

\* get_async_session_maker()
GetAsyncSessionMaker ==
    \E boto3_installed \in BOOLEAN :
        \E r \in {get_async_session_maker(dbconfig, proxy, settings, environ,
                                          instances, boto3_installed)} :
            /\ Len(r.insts) <= MaxFactories
            /\ dbconfig' = r.cfg
            /\ proxy' = r.p
            /\ settings' = r.s
            /\ instances' = r.insts
            /\ last' = ConfigOutcome("get_async_session_maker", r)
            /\ UNCHANGED <<environ, hvars, rows, cvars, classes, registry,
                           querysets, tasks>>

NextConfig ==
    \/ SetEnviron
    \/ ConfigureDatabase
    \/ GetDatabaseConfig
    \/ GetEngine
    \/ GetAsyncSessionMaker

SpecConfig == InitDb /\ [][NextConfig]_vars

----------------------------------------------------------------------------
(* The global engine_factory (src/wbweb/core/database/engine_factory.py).  *)

\* engine_factory.create_engine(database_url): the proxy finds or makes its
\* backend, whose create_engine is then called.
engine_factory_create_engine(p, s, env, insts, database_url, boto3_installed) ==
    LET Made(got, made) ==
            [p |-> got.p, s |-> got.s, insts |-> made.insts,
             value |-> made.engine, exc |-> made.exc,
             created |-> made.insts /= got.insts]
        WithFactory(got) ==
            IF got.exc /= NoExc
            THEN [p |-> got.p, s |-> got.s, insts |-> got.insts,
                  value |-> NoEngine, exc |-> got.exc, created |-> FALSE]
            ELSE Made(got, create_engine(got.insts, got.backend, database_url,
                                         boto3_installed))
    IN  WithFactory(Proxy__getattr__(p, s, env, insts, "create_engine"))

\* engine_factory.create_engine(database_url)
CreateEngine ==
    \E database_url \in DatabaseUrls, boto3_installed \in BOOLEAN :
        \E r \in {engine_factory_create_engine(proxy, settings, environ,
                                               instances, database_url,
                                               boto3_installed)} :
            /\ Len(r.insts) <= MaxInstances
            /\ proxy' = r.p
            /\ settings' = r.s
            /\ instances' = r.insts
            /\ last' = [op |-> "create_engine", env |-> environ,
                        database_url |-> database_url, value |-> r.value,
                        exc |-> r.exc, created |-> r.created,
                        instances_before |-> instances]
            /\ UNCHANGED <<environ, hvars, dvars>>

NextEngine ==
    \/ SetEnviron
    \/ CreateEngine

SpecEngine == InitDb /\ [][NextEngine]_vars

----------------------------------------------------------------------------
(* Manager.get_or_create, Base.save (src/wbweb/core/database/base.py) and  *)
(* the session context (src/wbweb/core/database/session_context.py).       *)

\* The defaults of get_or_create: None or {} (no pair), or a name.
Defaults == {<<>>} \cup {<<<<"name", n>>>> : n \in Names}
GetOrCreateKwargs == {<<>>} \cup {<<<<"name", n>>>> : n \in Names}

\* kwargs.copy() updated with defaults, the value of kwargs winning.
dict_update_kwargs_win(kwargs, dflts) ==
    kwargs \o SelectSeq(dflts, LAMBDA pair : ~KwHas(kwargs, pair[1]))

\* create_kwargs = kwargs.copy(); create_kwargs.update(defaults)
dict_update(kwargs, dflts) ==
    [i \in 1..Len(kwargs) |->
        IF KwHas(dflts, kwargs[i][1])
        THEN <<kwargs[i][1], KwGet(dflts, kwargs[i][1])>>
        ELSE kwargs[i]]
    \o SelectSeq(dflts, LAMBDA pair : ~KwHas(kwargs, pair[1]))

\* Manager.get_or_create(defaults, **kwargs): get, and create when get
\* raises DoesNotExist; any other exception of get propagates.
Manager_get_or_create(p, s, env, insts, table, dflts, kwargs, io) ==
    LET Created(got, made) ==
            [p |-> made.p, s |-> made.s, insts |-> made.insts,
             table |-> made.table, value |-> made.value, created |-> TRUE,
             exc |-> made.exc, log |-> got.log \o made.log]
        Got(got) ==
            IF got.exc = NoExc
            THEN [p |-> got.p, s |-> got.s, insts |-> got.insts,
                  table |-> table, value |-> got.value, created |-> FALSE,
                  exc |-> NoExc, log |-> got.log]
            ELSE IF got.exc.type = "DoesNotExist"
            THEN Created(got,
                         Manager_create(got.p, got.s, env, got.insts, table,
                                        dict_update(kwargs, dflts), io, 2))
            ELSE [p |-> got.p, s |-> got.s, insts |-> got.insts,
                  table |-> table, value |-> NoRow, created |-> FALSE,
                  exc |-> got.exc, log |-> got.log]
    IN  Got(Manager_get(p, s, env, insts, table, kwargs, io, 1))

\* The instances saved: new ones (id None, written 0) and ones with an id.
SaveInstances == {[id |-> i, name |-> n] : i \in 0..MaxRows, n \in Names}

\* setattr(self, attr_name, ...) for the name only.
CopyColumns_name_only(self, merged) ==
    [attr_name \in Columns |->
        IF attr_name = "name" THEN merged[attr_name] ELSE self[attr_name]]

\* for attr_name in self.__table__.columns.keys():
\*     setattr(self, attr_name, getattr(merged, attr_name))
CopyColumns(self, merged) ==
    [attr_name \in Columns |-> merged[attr_name]]

\* merged = await session.merge(self); flush(); the copy; commit()
SaveSteps == <<"merge", "flush", "setattr", "commit">>

\* The steps completed include the step.
Completed(ran, steps, step) == \E i \in 1..ran.done : steps[i] = step

\* Base.save(): the merged object has the id the flush gave it when the
\* instance had none; the row is in the table once the commit has
\* completed.  self is the instance after the call, the value returned.
Base_save(p, s, env, insts, table, self, io) ==
    LET merged == [id |-> IF self.id = 0 THEN NextId(table) ELSE self.id,
                   name |-> self.name]
        Ret(sess, table1, self1, exc, log) ==
            [p |-> sess.p, s |-> sess.s, insts |-> sess.insts,
             table |-> table1, self |-> self1, merged |-> merged,
             returned |-> IF exc = NoExc THEN "self" ELSE None,
             exc |-> exc, log |-> log]
        Ran(sess, ran) ==
            Ret(sess,
                IF ran.exc = NoExc
                THEN {r \in table : r.id /= merged.id} \cup {merged}
                ELSE table,
                IF Completed(ran, SaveSteps, "setattr")
                THEN CopyColumns(self, merged) ELSE self,
                ran.exc, ran.log)
        Save(sess) ==
            IF sess.exc /= NoExc
            THEN Ret(sess, table, self, sess.exc, <<>>)
            ELSE Ran(sess, AsyncWith(sess.session, SaveSteps, io))
    IN  Save(get_session(p, s, env, insts, io.boto3_installed, 1))

\* await User.objects.get_or_create(defaults, **kwargs)
ManagerGetOrCreate ==
    \E kwargs \in GetOrCreateKwargs, dflts \in Defaults,
       io \in Surroundings(GetSteps \o CreateSteps) :
        \E r \in {Manager_get_or_create(proxy, settings, environ, instances,
                                        rows, dflts, kwargs, io)} :
            /\ Len(r.insts) <= MaxInstances
            /\ Cardinality(r.table) <= MaxRows
            /\ proxy' = r.p
            /\ settings' = r.s
            /\ instances' = r.insts
            /\ rows' = r.table
            /\ last' = DbOutcome("get_or_create", kwargs, r.value, r.exc, r.log)
                       @@ [defaults |-> dflts, created |-> r.created]
            /\ UNCHANGED <<environ, cvars, mvars, hvars>>

\* await instance.save()
BaseSave ==
    \E self \in SaveInstances, io \in Surroundings(SaveSteps) :
        \E r \in {Base_save(proxy, settings, environ, instances, rows, self,
                            io)} :
            /\ Len(r.insts) <= MaxInstances
            /\ Cardinality(r.table) <= MaxRows
            /\ proxy' = r.p
            /\ settings' = r.s
            /\ instances' = r.insts
            /\ rows' = r.table
            /\ last' = DbOutcome("save", <<>>, r.self, r.exc, r.log)
                       @@ [instance |-> self, merged |-> r.merged,
                           returned |-> r.returned]
            /\ UNCHANGED <<environ, cvars, mvars, hvars>>

\* Surroundings in which nothing fails.
Healthy ==
    [boto3_installed |-> TRUE,
     connect_exc |-> CHOOSE e \in RdsConnectErrors : TRUE,
     fail |-> None]

\* One get_or_create call that has not begun: it is at its get.
NewTask(kwargs, dflts) ==
    [pc |-> "get", kwargs |-> kwargs, defaults |-> dflts, value |-> NoRow,
     created |-> FALSE, exc |-> NoExc]

\* Two tasks call get_or_create with equal kwargs while no row matches.
StartGetOrCreate ==
    /\ \A i \in 1..Len(tasks) : tasks[i].pc = "done"
    /\ \E kwargs \in GetOrCreateKwargs \ {<<>>}, dflts \in Defaults :
          /\ Select(rows, kwargs) = {}
          /\ tasks' = <<NewTask(kwargs, dflts), NewTask(kwargs, dflts)>>
    /\ UNCHANGED <<svars, hvars, rows, cvars, classes, registry, dbconfig,
                   querysets>>

\* A task runs 'instance = await self.get(**kwargs)' and returns, or
\* catches DoesNotExist and goes on to the create.
TaskGet ==
    \E i \in 1..Len(tasks) :
        /\ tasks[i].pc = "get"
        /\ \E r \in {Manager_get(proxy, settings, environ, instances, rows,
                                 tasks[i].kwargs, Healthy, 1)} :
              /\ Len(r.insts) <= MaxInstances
              /\ proxy' = r.p
              /\ settings' = r.s
              /\ instances' = r.insts
              /\ tasks' = [tasks EXCEPT ![i] =
                    IF r.exc = NoExc
                    THEN [@ EXCEPT !.pc = "done", !.value = r.value]
                    ELSE IF r.exc.type = "DoesNotExist"
                    THEN [@ EXCEPT !.pc = "create"]
                    ELSE [@ EXCEPT !.pc = "done", !.exc = r.exc]]
        /\ UNCHANGED <<environ, last, hvars, rows, cvars, classes, registry,
                       dbconfig, querysets>>

\* A task runs 'instance = await self.create(**create_kwargs)' and returns.
TaskCreate ==
    \E i \in 1..Len(tasks) :
        /\ tasks[i].pc = "create"
        /\ \E r \in {Manager_create(proxy, settings, environ, instances, rows,
                                    dict_update(tasks[i].kwargs,
                                                tasks[i].defaults),
                                    Healthy, 2)} :
              /\ Len(r.insts) <= MaxInstances
              /\ Cardinality(r.table) <= MaxRows
              /\ proxy' = r.p
              /\ settings' = r.s
              /\ instances' = r.insts
              /\ rows' = r.table
              /\ tasks' = [tasks EXCEPT ![i] =
                    [@ EXCEPT !.pc = "done", !.value = r.value,
                              !.created = r.exc = NoExc, !.exc = r.exc]]
        /\ UNCHANGED <<environ, last, hvars, cvars, classes, registry,
                       dbconfig, querysets>>

NextRace ==
    \/ StartGetOrCreate
    \/ TaskGet
    \/ TaskCreate

SpecRace == InitDb /\ [][NextRace]_vars

\* The AsyncQuerySet objects of a run.
MaxQuerySets == 2

\* _result_cache = None
NoCache == [set |-> FALSE]

\* No list: what a call that raised returns.
NoList == [set |-> FALSE]

\* AsyncQuerySet(model_class, session_factory) whose statement is the
\* select with the clauses; executions counts the successful executions
\* made for awaits and iterations of the object.
NewQuerySet(stmt) ==
    [_stmt |-> stmt, _result_cache |-> NoCache, executions |-> 0]

\* What filter, options and order_by add to a statement.
WhereClauses == {<<"where", "name", "John">>}
OptionClauses == {<<"options", "selectinload">>}
OrderClauses == {<<"order_by", "id desc">>}

\* AsyncQuerySet._clone()
AsyncQuerySet__clone(qs) == NewQuerySet(qs._stmt)

\* A derivation that extends the receiver's statement in place.
Derive_in_place(qs, clause) ==
    [qs EXCEPT !._stmt = Append(@, clause)]

\* filter, options, order_by: new_qs = self._clone(); new_qs._stmt extended
Derive(qs, clause) ==
    [AsyncQuerySet__clone(qs) EXCEPT !._stmt = Append(@, clause)]

RECURSIVE ListById(_)
\* The rows as a list, by ascending id.
ListById(S) ==
    IF S = {} THEN <<>>
    ELSE LET r == CHOOSE r \in S : \A q \in S : r.id <= q.id
         IN  <<r>> \o ListById(S \ {r})

\* reversed(list)
Reversed(list) == [i \in 1..Len(list) |-> list[Len(list) + 1 - i]]

\* result.scalars().all() of the statement on the table: the rows that
\* satisfy every where clause, in the order asked for.
ResultOf(table, stmt) ==
    LET matching ==
            {r \in table :
                \A i \in 1..Len(stmt) :
                    stmt[i][1] = "where" => r[stmt[i][2]] = stmt[i][3]}
    IN  IF \E i \in 1..Len(stmt) : stmt[i] \in OrderClauses
        THEN Reversed(ListById(matching))
        ELSE ListById(matching)

\* AsyncQuerySet._fetch_all(): a session from the session factory, the
\* statement executed in 'async with session'.
AsyncQuerySet__fetch_all(p, s, env, insts, table, qs, io) ==
    LET Ran(sess, ran) ==
            [p |-> sess.p, s |-> sess.s, insts |-> sess.insts,
             value |-> IF ran.exc = NoExc
                       THEN [set |-> TRUE, list |-> ResultOf(table, qs._stmt)]
                       ELSE NoList,
             exc |-> ran.exc, log |-> ran.log]
        Fetch(sess) ==
            IF sess.exc /= NoExc
            THEN [p |-> sess.p, s |-> sess.s, insts |-> sess.insts,
                  value |-> NoList, exc |-> sess.exc, log |-> <<>>]
            ELSE Ran(sess, AsyncWith(sess.session, GetSteps, io))
    IN  Fetch(get_session(p, s, env, insts, io.boto3_installed, 1))

\* AsyncQuerySet.first(): result.scalars().first()
AsyncQuerySet_first(p, s, env, insts, table, qs, io) ==
    LET First(r) ==
            IF r.exc /= NoExc THEN r
            ELSE [r EXCEPT !.value =
                     [set |-> TRUE,
                      list |-> IF r.value.list = <<>> THEN <<>>
                               ELSE <<Head(r.value.list)>>]]
    IN  First(AsyncQuerySet__fetch_all(p, s, env, insts, table, qs, io))

\* __await__ testing the cache by truth value: an empty list is fetched
\* again.
AsyncQuerySet__await__refetch_empty(p, s, env, insts, table, qs, io) ==
    LET Fetched(r) ==
            [p |-> r.p, s |-> r.s, insts |-> r.insts, value |-> r.value,
             exc |-> r.exc, log |-> r.log,
             qs |-> IF r.exc = NoExc
                    THEN [qs EXCEPT !._result_cache = r.value,
                                    !.executions = @ + 1]
                    ELSE qs]
    IN  IF qs._result_cache = NoCache \/ qs._result_cache.list = <<>>
        THEN Fetched(AsyncQuerySet__fetch_all(p, s, env, insts, table, qs, io))
        ELSE [p |-> p, s |-> s, insts |-> insts, value |-> qs._result_cache,
              exc |-> NoExc, log |-> <<>>, qs |-> qs]

\* AsyncQuerySet.__await__ and __aiter__: fetch if _result_cache is None,
\* then return (or yield the items of) the cache.
AsyncQuerySet__await__(p, s, env, insts, table, qs, io) ==
    LET Fetched(r) ==
            [p |-> r.p, s |-> r.s, insts |-> r.insts, value |-> r.value,
             exc |-> r.exc, log |-> r.log,
             qs |-> IF r.exc = NoExc
                    THEN [qs EXCEPT !._result_cache = r.value,
                                    !.executions = @ + 1]
                    ELSE qs]
    IN  IF qs._result_cache = NoCache
        THEN Fetched(AsyncQuerySet__fetch_all(p, s, env, insts, table, qs, io))
        ELSE [p |-> p, s |-> s, insts |-> insts, value |-> qs._result_cache,
              exc |-> NoExc, log |-> <<>>, qs |-> qs]

\* What the last queryset call saw and did.
QueryOutcome(op, i, r) ==
    [op |-> op, receiver |-> i, value |-> r.value, exc |-> r.exc,
     log |-> r.log, querysets_before |-> querysets]

\* User.objects.all()
ManagerAll ==
    /\ Len(querysets) < MaxQuerySets
    /\ querysets' = Append(querysets, NewQuerySet(<<>>))
    /\ last' = [op |-> "Manager.all", querysets_before |-> querysets]
    /\ UNCHANGED <<environ, settings, proxy, instances, hvars, rows, cvars,
                   classes, registry, dbconfig, tasks>>

\* qs.filter(name=...), qs.options(...), qs.order_by(...)
QuerySetDerive ==
    /\ Len(querysets) < MaxQuerySets
    /\ \E i \in 1..Len(querysets),
          clause \in WhereClauses \cup OptionClauses \cup OrderClauses :
          /\ querysets' = Append(querysets, Derive(querysets[i], clause))
          /\ last' = [op |-> "derive", receiver |-> i, clause |-> clause,
                      querysets_before |-> querysets]
    /\ UNCHANGED <<environ, settings, proxy, instances, hvars, rows, cvars,
                   classes, registry, dbconfig, tasks>>

\* await qs, or async for item in qs
QuerySetAwait ==
    \E i \in 1..Len(querysets), how \in {"await", "aiter"},
       io \in Surroundings(GetSteps) :
        \E r \in {AsyncQuerySet__await__(proxy, settings, environ, instances,
                                         rows, querysets[i], io)} :
            /\ Len(r.insts) <= MaxInstances
            /\ proxy' = r.p
            /\ settings' = r.s
            /\ instances' = r.insts
            /\ querysets' = [querysets EXCEPT ![i] = r.qs]
            /\ last' = QueryOutcome(how, i, r)
            /\ UNCHANGED <<environ, hvars, rows, cvars, classes, registry,
                           dbconfig, tasks>>

\* await qs.all()
QuerySetAll ==
    \E i \in 1..Len(querysets), io \in Surroundings(GetSteps) :
        \E r \in {AsyncQuerySet__fetch_all(proxy, settings, environ,
                                           instances, rows, querysets[i], io)} :
            /\ Len(r.insts) <= MaxInstances
            /\ proxy' = r.p
            /\ settings' = r.s
            /\ instances' = r.insts
            /\ last' = QueryOutcome("all", i, r)
            /\ UNCHANGED <<environ, hvars, dvars>>

\* await qs.first()
QuerySetFirst ==
    \E i \in 1..Len(querysets), io \in Surroundings(GetSteps) :
        \E r \in {AsyncQuerySet_first(proxy, settings, environ, instances,
                                      rows, querysets[i], io)} :
            /\ Len(r.insts) <= MaxInstances
            /\ proxy' = r.p
            /\ settings' = r.s
            /\ instances' = r.insts
            /\ last' = QueryOutcome("first", i, r)
            /\ UNCHANGED <<environ, hvars, dvars>>

\* The table's first row is added while the querysets exist.
QuerySetRowAdded ==
    /\ rows = {}
    /\ \E kwargs \in CreateKwargs :
        \E r \in {Manager_create(proxy, settings, environ, instances, rows,
                                 kwargs, Healthy, 1)} :
            /\ Len(r.insts) <= MaxInstances
            /\ proxy' = r.p
            /\ settings' = r.s
            /\ instances' = r.insts
            /\ rows' = r.table
            /\ last' = [op |-> "create", querysets_before |-> querysets]
            /\ UNCHANGED <<environ, hvars, cvars, mvars>>

NextQuery ==
    \/ ManagerAll
    \/ QuerySetDerive
    \/ QuerySetAwait
    \/ QuerySetAll
    \/ QuerySetFirst
    \/ QuerySetRowAdded

SpecQuery == InitDb /\ [][NextQuery]_vars

NextOrm ==
    \/ ManagerGet
    \/ ManagerCreate
    \/ ManagerGetOrCreate
    \/ BaseSave

SpecOrm == InitDb /\ [][NextOrm]_vars

MaxFrames == 2

\* The sessions a caller made before and hands to session_context().
ContextSessions == {[id |-> "ctx1", engine |-> NoEngine],
                    [id |-> "ctx2", engine |-> NoEngine]}

\* SessionContext.get_current_session(), get_context_session()
get_current_session(local) == local

\* session_context(session) up to the yield: the stored session after it
\* and what the block keeps for its exit.
session_context_enter(local, session) ==
    [local |-> session,
     frame |-> [session |-> session,
                old_session |-> get_current_session(local)]]

\* session_context(session) from the yield on (the finally clause): the
\* stored session after it.
session_context_exit(local, frame) ==
    IF frame.old_session /= NoSession THEN frame.old_session ELSE NoSession

\* with session_context.session_context(session):
EnterContext ==
    /\ Len(frames) < MaxFrames
    /\ \E session \in ContextSessions :
          \E r \in {session_context_enter(ctx, session)} :
              /\ ctx' = r.local
              /\ frames' = Append(frames, r.frame)
    /\ UNCHANGED <<svars, rows, mvars, hvars>>

\* The innermost with block is left, normally or by an exception.
ExitContext ==
    /\ frames /= <<>>
    /\ ctx' = session_context_exit(ctx, frames[Len(frames)])
    /\ frames' = SubSeq(frames, 1, Len(frames) - 1)
    /\ UNCHANGED <<svars, rows, mvars, hvars>>

\* A with block is left that need not be the innermost: the blocks belong
\* to tasks that share the storage and leave in any order.
ExitAnyContext ==
    /\ \E i \in 1..Len(frames) :
          /\ ctx' = session_context_exit(ctx, frames[i])
          /\ frames' = SubSeq(frames, 1, i - 1)
                        \o SubSeq(frames, i + 1, Len(frames))
    /\ UNCHANGED <<svars, rows, mvars, hvars>>

\* session_context.get_current_session(), get_context_session()
GetCurrentSession ==
    /\ last' = [op |-> "get_current_session",
                value |-> get_current_session(ctx), frames |-> frames]
    /\ UNCHANGED <<environ, settings, proxy, instances, hvars, dvars>>

NextInterleaved ==
    \/ EnterContext
    \/ ExitAnyContext
    \/ GetCurrentSession

SpecInterleaved == InitDb /\ [][NextInterleaved]_vars

NextCtx ==
    \/ EnterContext
    \/ ExitContext
    \/ ManagerGet
    \/ ManagerCreate

SpecCtx == InitDb /\ [][NextCtx]_vars

----------------------------------------------------------------------------
(* BaseMeta (src/wbweb/core/database/base.py).  A class is written by its  *)
(* position in classes; 0 is Base.                                         *)

MaxClasses == 2

BaseClass == 0

ManagerTypes == {"Manager", "CustomManager"}
ManagerAttrs == {"objects", "custom_manager"}

NoManager == [type |-> None]

\* Manager(model_class), or a subclass of Manager; made_at tells the
\* instance from every other one: the class whose creation made it, the
\* attribute and whether it is the default manager.
NewManager(type, model_class, attr_name, how) ==
    [type |-> type, model_class |-> model_class,
     made_at |-> <<model_class, attr_name, how>>]

\* The managers a class body declares: none, or one under one name.
DeclaredManagers ==
    {<<>>} \cup {<<<<a, ty>>>> : a \in ManagerAttrs, ty \in ManagerTypes}

\* The class bodies: whether __tablename__ is set, whether __no_table__ is
\* set to True, and the Manager instances assigned in the body.
Namespaces ==
    [tablename : BOOLEAN, no_table : BOOLEAN, managers : DeclaredManagers]

\* getattr(cls, attr_name, NoManager) for a manager attribute
RECURSIVE GetManager(_, _, _)
GetManager(cs, cls, attr_name) ==
    IF cls = BaseClass THEN NoManager
    ELSE IF attr_name \in DOMAIN cs[cls].dict THEN cs[cls].dict[attr_name]
    ELSE GetManager(cs, cs[cls].base, attr_name)

\* hasattr(cls, '__tablename__')
RECURSIVE HasTablename(_, _)
HasTablename(cs, cls) ==
    /\ cls /= BaseClass
    /\ \/ cs[cls].namespace.tablename
       \/ HasTablename(cs, cs[cls].base)

\* getattr(cls, '__no_table__', False)
RECURSIVE NoTable(_, _)
NoTable(cs, cls) ==
    /\ cls /= BaseClass
    /\ \/ cs[cls].namespace.no_table
       \/ NoTable(cs, cs[cls].base)

\* BaseMeta.__new__(mcs, name, bases, namespace): the classes after it.
BaseMeta__new__(cs, base, namespace) ==
    LET cls == Len(cs) + 1
        bound == [a \in {pair[1] : pair \in
                            {namespace.managers[i] :
                                i \in 1..Len(namespace.managers)}} |->
                     NewManager(KwGet(namespace.managers, a), cls, a, "bound")]
        cs1 == Append(cs, [base |-> base, namespace |-> namespace,
                           dict |-> bound])
    IN  IF /\ HasTablename(cs1, cls)
           /\ ~NoTable(cs1, cls)
           /\ GetManager(cs1, cls, "objects") = NoManager
        THEN [cs1 EXCEPT ![cls].dict =
                  [a \in DOMAIN bound \cup {"objects"} |->
                      IF a \in DOMAIN bound THEN bound[a]
                      ELSE NewManager("Manager", cls, "objects", "default")]]
        ELSE cs1

\* class <name>(<base>): <namespace>
DefineClass ==
    /\ Len(classes) < MaxClasses
    /\ \E base \in 0..Len(classes), namespace \in Namespaces :
          classes' = BaseMeta__new__(classes, base, namespace)
    /\ UNCHANGED <<svars, rows, cvars, hvars, gvars>>

NextMeta ==
    \/ DefineClass

SpecMeta == InitDb /\ [][NextMeta]_vars

----------------------------------------------------------------------------
(* Permissions (src/wbweb/core/auth/policies.py, permissions.py).          *)

MaxRegistered == 2

\* Permission names and resource types; SubDocument is a subclass of
\* Document.
Perms == {"view", "edit"}
ResourceTypes == {"Document", "SubDocument"}

\* The object given to has_perm: None, or an instance of a resource type.
NoObject == [type |-> None]
Objects == {NoObject} \cup {[type |-> ty] : ty \in ResourceTypes}

\* The checker functions registered, by what a call of each does: it
\* returns True, False, None or 1, or raises.
Checkers == {"allow", "deny", "no_opinion", "truthy", "broken"}

CheckerError ==
    [type |-> "ValueError", msg |-> <<>>, raised_by |-> "checker",
     cause |-> None]

\* await checker_func(user) or await checker_func(user, obj)
CallChecker(checker_func) ==
    CASE checker_func = "allow" -> [value |-> "True", exc |-> NoExc]
      [] checker_func = "deny" -> [value |-> "False", exc |-> NoExc]
      [] checker_func = "no_opinion" -> [value |-> None, exc |-> NoExc]
      [] checker_func = "truthy" -> [value |-> "1", exc |-> NoExc]
      [] checker_func = "broken" -> [value |-> None, exc |-> CheckerError]

\* PermissionRegistry.register(perm_name, resource_type, checker_func)
PermissionRegistry_register(_permissions, perm_name, resource_type, checker_func) ==
    LET key == <<resource_type, perm_name>>
    IN  [k \in DOMAIN _permissions \cup {key} |->
            IF k = key THEN checker_func ELSE _permissions[k]]

\* PermissionRegistry.check(user, perm_or_action, obj): the result, and the
\* arguments the checker was called with.
PermissionRegistry_check(_permissions, perm_or_action, obj) ==
    LET resource_type == IF obj /= NoObject THEN obj.type ELSE None
        key == <<resource_type, perm_or_action>>
        Called(r, args) == [value |-> r.value, exc |-> r.exc, args |-> args]
    IN  IF key \in DOMAIN _permissions
        THEN IF obj = NoObject
             THEN Called(CallChecker(_permissions[key]), <<"user">>)
             ELSE Called(CallChecker(_permissions[key]), <<"user", "obj">>)
        ELSE [value |-> None, exc |-> NoExc, args |-> <<>>]

\* has_perm returning bool(result).
PermissionMixin_has_perm_truthy(_permissions, perm, obj) ==
    LET Result(result) ==
            IF result.exc /= NoExc THEN result
            ELSE [value |-> IF result.value \in {"True", "1"}
                            THEN "True" ELSE "False",
                  exc |-> NoExc, args |-> result.args]
    IN  Result(PermissionRegistry_check(_permissions, perm, obj))

\* PermissionMixin.has_perm(perm, obj): result is True
PermissionMixin_has_perm(_permissions, perm, obj) ==
    LET Result(result) ==
            IF result.exc /= NoExc THEN result
            ELSE [value |-> IF result.value = "True" THEN "True" ELSE "False",
                  exc |-> NoExc, args |-> result.args]
    IN  Result(PermissionRegistry_check(_permissions, perm, obj))

\* @register_permission(perm_name, resource_type) on a checker function
RegisterPermission ==
    \E perm_name \in Perms, resource_type \in ResourceTypes \cup {None},
       checker_func \in Checkers :
        \E r \in {PermissionRegistry_register(registry, perm_name,
                                              resource_type, checker_func)} :
            /\ Cardinality(DOMAIN r) <= MaxRegistered
            /\ registry' = r
            /\ last' = [op |-> "register", key |-> <<resource_type, perm_name>>,
                        checker_func |-> checker_func,
                        registry_before |-> registry]
            /\ UNCHANGED <<environ, settings, proxy, instances, hvars, rows,
                           cvars, classes, dbconfig, querysets, tasks>>

\* await user.has_perm(perm, obj)
HasPerm ==
    \E perm \in Perms, obj \in Objects :
        \E r \in {PermissionMixin_has_perm(registry, perm, obj)} :
            /\ last' = [op |-> "has_perm", perm |-> perm, obj |-> obj,
                        value |-> r.value, exc |-> r.exc, args |-> r.args]
            /\ UNCHANGED <<environ, settings, proxy, instances, hvars, dvars>>

NextAuth ==
    \/ RegisterPermission
    \/ HasPerm

SpecAuth == Init /\ [][NextAuth]_vars

----------------------------------------------------------------------------
(* Properties of the errors that reach a caller.                           *)

\* The exceptions the frameworks under the library construct.
FrameworkErrors ==
    RdsConnectErrors
    \cup {MultipleResultsFound, DbError, import_module("boto3").exc}
    \cup {ModelAttributeError(k) : k \in {"nonexistent"}}
    \cup {ModelTypeError(k) : k \in {"nonexistent"}}

Raised == last.op \in {"settings", "get", "create"} /\ last.exc /= NoExc

----------------------------------------------------------------------------
(* DefaultRenderer (src/wbweb/core/templates/renderers.py)                 *)

\* The media types the Accept header is searched for, and one it is not.
AcceptTypes ==
    {"application/json", "text/html", "application/xml", "application/raw",
     "*/*"}

\* A header value: absent (None), empty, or some text.
HeaderValues == {None, "", "true"}

\* The Accept header as the set of the media types its text contains; a
\* request without the header has none, as has one with an empty header.
Requests ==
    [accept : [types : SUBSET AcceptTypes],
     x_api_client : HeaderValues,
     hx_request : HeaderValues]

\* request.headers.get('accept', '')
headers_get_accept(request) == request.accept.types

key_component == <<"c", "o", "m", "p", "o", "n", "e", "n", "t">>
key_attributes == <<"a", "t", "t", "r", "i", "b", "u", "t", "e", "s">>
key_children == <<"c", "h", "i", "l", "d", "r", "e", "n">>
tag_main == <<"m", "a", "i", "n">>

RECURSIVE component_to_json_always_children(_)
\* component_to_json with the 'children' key set for an empty list too.
component_to_json_always_children(component) ==
    IF component.kind = "list" /\ Len(component.items) >= 2
    THEN LET tag == component.items[1]
             has_attrs == component.items[2].kind = "dict"
             attrs == IF has_attrs THEN component.items[2] ELSE Dict(<<>>)
             children == IF has_attrs THEN Slice(component.items, 2)
                         ELSE Slice(component.items, 1)
         IN  Dict(<<Attr(key_component, tag), Attr(key_attributes, attrs),
                    Attr(key_children,
                         List([i \in 1..Len(children) |->
                                 IF children[i].kind = "list"
                                 THEN component_to_json_always_children(children[i])
                                 ELSE children[i]]))>>)
    ELSE component

RECURSIVE component_to_json(_)
\* DefaultRenderer.component_to_json(component); the dict it builds keeps
\* the order in which its keys are set.
component_to_json(component) ==
    IF component.kind = "list" /\ Len(component.items) >= 2
    THEN LET tag == component.items[1]
             has_attrs == component.items[2].kind = "dict"
             attrs == IF has_attrs THEN component.items[2] ELSE Dict(<<>>)
             children == IF has_attrs THEN Slice(component.items, 2)
                         ELSE Slice(component.items, 1)
         IN  Dict(<<Attr(key_component, tag), Attr(key_attributes, attrs)>>
                  \o (IF children /= <<>>
                      THEN <<Attr(key_children,
                                  List([i \in 1..Len(children) |->
                                          IF children[i].kind = "list"
                                          THEN component_to_json(children[i])
                                          ELSE children[i]]))>>
                      ELSE <<>>))
    ELSE component

\* The renderer classes: DefaultRenderer itself and subclasses that override
\* render_ui, render_api, or both.
RendererClasses == {"DefaultRenderer", "UiRenderer", "ApiRenderer", "UiApiRenderer"}
OverridesUi == {"UiRenderer", "UiApiRenderer"}
OverridesApi == {"ApiRenderer", "UiApiRenderer"}

\* The keyword arguments a renderer is given (the view's result).
RenderKwargs ==
    {Dict(<<>>),
     Dict(<<Attr(key_title, Str(<<"a">>))>>),
     Dict(<<Attr(key_title, Str(<<"\"">>)), Attr(key_class, Str(<<"b">>))>>)}

\* What the overriding methods return: components that show the keyword
\* arguments they were given.
UiComponent(kwargs) == List(<<Str(tag_main), kwargs, Str(<<"U", "I">>)>>)
ApiComponent(kwargs) == List(<<Str(tag_span), kwargs, Str(<<"A", "P", "I">>)>>)

NoValue == [kind |-> "none"]

NotImplementedError ==
    [type |-> "NotImplementedError",
     msg |-> <<"Subclasses must implement render_ui">>,
     raised_by |-> "wbweb",
     cause |-> None]

\* render_ui(**kwargs): the value returned or the exception raised, and the
\* methods called.
render_ui(cls, kwargs) ==
    IF cls \in OverridesUi
    THEN [value |-> UiComponent(kwargs), exc |-> NoExc, calls |-> <<"render_ui">>]
    ELSE [value |-> NoValue, exc |-> NotImplementedError,
          calls |-> <<"render_ui">>]

\* render_api(**kwargs)
render_api(cls, kwargs) ==
    LET Via(r) == [r EXCEPT !.calls = <<"render_api">> \o @]
    IN  IF cls \in OverridesApi
        THEN [value |-> ApiComponent(kwargs), exc |-> NoExc,
              calls |-> <<"render_api">>]
        ELSE Via(render_ui(cls, kwargs))

\* json.dumps of a str: quotes and backslashes are escaped.
json_str(text) ==
    <<"\"">>
    \o Concat([i \in 1..Len(text) |->
                 IF text[i] \in {"\"", "\\"} THEN <<"\\", text[i]>>
                 ELSE <<text[i]>>])
    \o <<"\"">>

\* json.dumps(kwargs, indent=2, default=str) for a dict of strs
dumps_indent2(kwargs) ==
    IF kwargs.items = <<>>
    THEN <<"{", "}">>
    ELSE <<"{", "\n">>
         \o Join(<<",", "\n">>,
                 [i \in 1..Len(kwargs.items) |->
                    <<" ", " ">> \o json_str(kwargs.items[i].k) \o <<":", " ">>
                    \o json_str(kwargs.items[i].v.val)])
         \o <<"\n", "}">>

\* render_raw(**kwargs)
render_raw(cls, kwargs) ==
    [value |-> Str(dumps_indent2(kwargs)), exc |-> NoExc,
     calls |-> <<"render_raw">>]

\* DefaultRenderer.render with text/html tested before application/json.
DefaultRenderer_render_html_first(cls, request, kwargs) ==
    LET accept == headers_get_accept(request)
        is_legacy_api_client ==
            request.x_api_client /= None \/ request.hx_request /= None
        ToJson(r) ==
            IF r.exc /= NoExc THEN r
            ELSE [value |-> component_to_json(r.value), exc |-> NoExc,
                  calls |-> Append(r.calls, "component_to_json")]
    IN  IF "text/html" \in accept
        THEN render_ui(cls, kwargs)
        ELSE IF "application/json" \in accept
        THEN ToJson(render_api(cls, kwargs))
        ELSE IF "application/xml" \in accept \/ is_legacy_api_client
        THEN render_api(cls, kwargs)
        ELSE IF "application/raw" \in accept
        THEN render_raw(cls, kwargs)
        ELSE render_ui(cls, kwargs)

\* DefaultRenderer.render(request, **kwargs)
DefaultRenderer_render(cls, request, kwargs) ==
    LET accept == headers_get_accept(request)
        is_legacy_api_client ==
            request.x_api_client /= None \/ request.hx_request /= None
        ToJson(r) ==
            IF r.exc /= NoExc THEN r
            ELSE [value |-> component_to_json(r.value), exc |-> NoExc,
                  calls |-> Append(r.calls, "component_to_json")]
    IN  IF "application/json" \in accept
        THEN ToJson(render_api(cls, kwargs))
        ELSE IF "text/html" \in accept
        THEN render_ui(cls, kwargs)
        ELSE IF "application/xml" \in accept \/ is_legacy_api_client
        THEN render_api(cls, kwargs)
        ELSE IF "application/raw" \in accept
        THEN render_raw(cls, kwargs)
        ELSE render_ui(cls, kwargs)

\* ContentNegotiator.is_api_request(request)
is_api_request(request) ==
    request.x_api_client /= None \/ request.hx_request /= None

\* renderer_class().render(request, **kwargs)
RendererRender ==
    \E cls \in RendererClasses, request \in Requests, kwargs \in RenderKwargs :
        \E r \in {DefaultRenderer_render(cls, request, kwargs)} :
            /\ last.op = "init"
            /\ last' = [op |-> "render", cls |-> cls, request |-> request,
                        kwargs |-> kwargs, value |-> r.value, exc |-> r.exc,
                        calls |-> r.calls]
            /\ UNCHANGED <<environ, settings, proxy, instances, hvars, dvars>>

\* DefaultRenderer().component_to_json(component)
ComponentToJson ==
    \E component \in HiccupInputs :
        /\ last.op = "init"
        /\ last' = [op |-> "component_to_json", component |-> component,
                    value |-> component_to_json(component)]
        /\ UNCHANGED <<environ, settings, proxy, instances, hvars, dvars>>

----------------------------------------------------------------------------
(* The renderer decorator (src/wbweb/core/web/decorators.py)               *)

PyInt(n) == [kind |-> "int", val |-> n]

key_status_code == <<"s", "t", "a", "t", "u", "s", "_", "c", "o", "d", "e">>
key_redirect_url ==
    <<"r", "e", "d", "i", "r", "e", "c", "t", "_", "u", "r", "l">>
key_message == <<"m", "e", "s", "s", "a", "g", "e">>

\* d.get(key, default)
dict_get(d, key, default) ==
    IF \E i \in 1..Len(d.items) : d.items[i].k = key
    THEN d.items[CHOOSE i \in 1..Len(d.items) : d.items[i].k = key].v
    ELSE default

\* The dicts a view returns: a message, with or without a status code and
\* a redirect URL, which may be empty.
ViewResults ==
    {Dict(<<Attr(key_message, Str(<<"h", "i">>))>> \o status \o redirect) :
        status \in {<<>>, <<Attr(key_status_code, PyInt(201))>>},
        redirect \in {<<>>, <<Attr(key_redirect_url, Str(<<>>))>>,
                      <<Attr(key_redirect_url, Str(<<"/", "n">>))>>}}

\* What awaiting the view gives: a result dict, or RuntimeError("View error").
ViewError ==
    [type |-> "RuntimeError", msg |-> <<"View error">>, raised_by |-> "view",
     cause |-> None]
ViewOutcomes ==
    {[value |-> result_dict, exc |-> NoExc] : result_dict \in ViewResults}
    \cup {[value |-> NoValue, exc |-> ViewError]}

\* The renderer classes handed to the decorator: one whose render returns a
\* dict, one whose render returns a component, one whose render raises.
DecoratedRenderers == {"DataRenderer", "ComponentRenderer", "BrokenRenderer"}
RendererData ==
    Dict(<<Attr(key_message, Str(<<"o", "k">>)), Attr(key_checked, Bool(True))>>)
RendererComponent ==
    List(<<Str(tag_div), Dict(<<Attr(key_class, Str(<<"t">>))>>),
           Str(<<"H", "i", "&">>)>>)
RendererError ==
    [type |-> "ValueError", msg |-> <<"Renderer error">>,
     raised_by |-> "renderer", cause |-> None]

\* renderer_class().render(request, **kwargs)
renderer_render(renderer_class, request, kwargs) ==
    CASE renderer_class = "DataRenderer" ->
            [value |-> RendererData, exc |-> NoExc]
      [] renderer_class = "ComponentRenderer" ->
            [value |-> RendererComponent, exc |-> NoExc]
      [] renderer_class = "BrokenRenderer" ->
            [value |-> NoValue, exc |-> RendererError]

\* json.dumps of a str or a bool
json_value(v) ==
    IF v.kind = "bool"
    THEN (IF v.val = True THEN <<"t", "r", "u", "e">>
          ELSE <<"f", "a", "l", "s", "e">>)
    ELSE json_str(v.val)

\* json.dumps(data) for a dict of strs and bools
json_dumps(data) ==
    <<"{">>
    \o Join(<<",", " ">>,
            [i \in 1..Len(data.items) |->
               json_str(data.items[i].k) \o <<":", " ">>
               \o json_value(data.items[i].v)])
    \o <<"}">>

NoResponse == [class |-> None]

\* Response(status_code=200) with response.headers['HX-Redirect'] set
HxRedirectResponse(redirect_url) ==
    [class |-> "Response", status_code |-> 200,
     headers |-> [HX_Redirect |-> redirect_url], body |-> <<>>]

\* RedirectResponse(redirect_url, status_code=303)
RedirectResponse(redirect_url) ==
    [class |-> "RedirectResponse", status_code |-> 303,
     headers |-> [location |-> redirect_url], body |-> <<>>]

\* HTMLResponse(body, status_code=status_code)
HTMLResponse(body, status_code) ==
    [class |-> "HTMLResponse", status_code |-> status_code,
     headers |-> [content_type |-> "text/html; charset=utf-8"], body |-> body]

\* The wrapper @renderer(renderer_class) puts around a view, called with a
\* request: the response returned or the exception raised, the calls made
\* and the arguments render was given.
wrapper(renderer_class, request, view) ==
    LET Respond(result_dict, component_or_data, redirect_url) ==
            IF redirect_url.val /= <<>>
            THEN (IF request.hx_request \notin {None, ""}
                  THEN HxRedirectResponse(redirect_url.val)
                  ELSE RedirectResponse(redirect_url.val))
            ELSE IF component_or_data.kind = "dict"
            THEN HTMLResponse(json_dumps(component_or_data),
                              dict_get(result_dict, key_status_code, PyInt(200)).val)
            ELSE HTMLResponse(render(component_or_data),
                              dict_get(result_dict, key_status_code, PyInt(200)).val)
        Rendered(result_dict, rendered) ==
            IF rendered.exc /= NoExc
            THEN [response |-> NoResponse, exc |-> rendered.exc,
                  calls |-> <<"view_func", "render">>,
                  render_args |-> <<request, result_dict>>]
            ELSE [response |-> Respond(result_dict, rendered.value,
                                       dict_get(result_dict, key_redirect_url,
                                                Str(<<>>))),
                  exc |-> NoExc,
                  calls |-> <<"view_func", "render">>,
                  render_args |-> <<request, result_dict>>]
    IN  IF view.exc /= NoExc
        THEN [response |-> NoResponse, exc |-> view.exc,
              calls |-> <<"view_func">>, render_args |-> <<>>]
        ELSE Rendered(view.value,
                      renderer_render(renderer_class, request, view.value))

\* response = await wrapper(request)
WrappedView ==
    \E renderer_class \in DecoratedRenderers, request \in Requests,
       view \in ViewOutcomes :
        \E r \in {wrapper(renderer_class, request, view)} :
            /\ last.op = "init"
            /\ last' = [op |-> "wrapper", renderer_class |-> renderer_class,
                        request |-> request, view |-> view,
                        response |-> r.response, exc |-> r.exc,
                        calls |-> r.calls, render_args |-> r.render_args]
            /\ UNCHANGED <<environ, settings, proxy, instances, hvars, dvars>>

NextWeb ==
    \/ RendererRender
    \/ ComponentToJson
    \/ WrappedView

SpecWeb == Init /\ [][NextWeb]_vars

----------------------------------------------------------------------------
(* Properties of the renderers.                                            *)

HasKey(d, key) == \E i \in 1..Len(d.items) : d.items[i].k = key
Lookup(d, key) == d.items[CHOOSE i \in 1..Len(d.items) : d.items[i].k = key].v

RECURSIVE IsJsonOf(_, _)
\* r is the JSON form of the component c.
IsJsonOf(r, c) ==
    IF IsElement(c)
    THEN /\ r.kind = "dict"
         /\ {r.items[i].k : i \in 1..Len(r.items)} \subseteq
                {key_component, key_attributes, key_children}
         /\ HasKey(r, key_component) /\ Lookup(r, key_component) = c.items[1]
         /\ HasKey(r, key_attributes) /\ Lookup(r, key_attributes) = AttrsOf(c)
         /\ HasKey(r, key_children) <=> ChildrenOf(c) /= <<>>
         /\ ChildrenOf(c) /= <<>> =>
               /\ Lookup(r, key_children).kind = "list"
               /\ Len(Lookup(r, key_children).items) = Len(ChildrenOf(c))
               /\ \A i \in 1..Len(ChildrenOf(c)) :
                     IF ChildrenOf(c)[i].kind = "list"
                     THEN IsJsonOf(Lookup(r, key_children).items[i],
                                   ChildrenOf(c)[i])
                     ELSE Lookup(r, key_children).items[i] = ChildrenOf(c)[i]
    ELSE r = c

\* C12: component_to_json maps a list of two or more elements to the dict
\* of its tag, its attribute map ({} when the second element is not a map)
\* and, exactly when there is a child, its children in order, each list
\* child converted in the same way and every other child kept; any other
\* value is returned unchanged.
C12_ComponentToJson ==
    last.op = "component_to_json" => IsJsonOf(last.value, last.component)

\* ["p", ["br", {}], "<"], a list without an attribute map whose first
\* child is a list without children, was converted.
C12_Witness ==
    /\ last.op = "component_to_json"
    /\ last.component = List(<<Str(tag_p), List(<<Str(tag_br), Dict(<<>>)>>),
                               Str(<<"<">>)>>)
    /\ HasKey(last.value, key_children)
    /\ ~HasKey(Lookup(last.value, key_children).items[1], key_children)

\* C13: the view is awaited first, then render is called once with the
\* request and the view's result as keyword arguments; with a redirect_url
\* that is not empty the response is a 200 carrying HX-Redirect for a
\* request with an HX-Request header and a 303 redirect otherwise; else the
\* body is the JSON text of a dict the renderer returned, or the
\* HiccupRenderer rendering of the component it returned, with the result's
\* status_code, 200 when absent.  An exception of the view or of the
\* renderer propagates and no response is built.
C13_WrappedViewResponse ==
    last.op = "wrapper" =>
        IF last.view.exc /= NoExc
        THEN /\ last.exc = last.view.exc
             /\ last.response = NoResponse
             /\ last.calls = <<"view_func">>
        ELSE /\ last.calls = <<"view_func", "render">>
             /\ last.render_args = <<last.request, last.view.value>>
             /\ IF last.renderer_class = "BrokenRenderer"
                THEN last.exc = RendererError /\ last.response = NoResponse
                ELSE /\ last.exc = NoExc
                     /\ LET result == last.view.value
                            url == IF HasKey(result, key_redirect_url)
                                   THEN Lookup(result, key_redirect_url).val
                                   ELSE <<>>
                            status == IF HasKey(result, key_status_code)
                                      THEN Lookup(result, key_status_code).val
                                      ELSE 200
                        IN  IF url /= <<>>
                            THEN IF last.request.hx_request /= None
                                 THEN /\ last.response.status_code = 200
                                      /\ last.response.headers =
                                             [HX_Redirect |-> url]
                                 ELSE /\ last.response.status_code = 303
                                      /\ last.response.headers =
                                             [location |-> url]
                            ELSE /\ last.response.status_code = status
                                 /\ last.renderer_class = "DataRenderer" =>
                                        last.response.body =
                                            json_dumps(RendererData)
                                 /\ last.renderer_class = "ComponentRenderer" =>
                                        last.response.body =
                                            render(RendererComponent)

----------------------------------------------------------------------------
(* Properties of the Manager operations, Base.save and the session         *)
(* context.                                                                *)

\* The session methods called, in order.
Ops(log) == [i \in 1..Len(log) |-> log[i].op]

\* The calls of the log that are among the given ones, in order.
OpsAmong(log, ops) == SelectSeq(Ops(log), LAMBDA op : op \in ops)

\* Every session method of the log was called on one session.
OneSession(log) ==
    \A i, j \in 1..Len(log) :
        (log[i].session /= None /\ log[j].session /= None) =>
            log[i].session = log[j].session

\* The query of the last Manager.get or get_or_create was executed.
Queried == last.exc \in {NoExc, DoesNotExist, MultipleResultsFound}

\* C14: Manager.get returns None, without raising, when no row matches, and
\* the matching instance when exactly one row matches.
C14_GetReturnsNone ==
    (last.op = "get" /\ Queried) =>
        /\ Select(last.rows_before, last.kwargs) = {} =>
              (last.exc = NoExc /\ last.value = NoRow)
        /\ Cardinality(Select(last.rows_before, last.kwargs)) = 1 =>
              (last.exc = NoExc
               /\ {last.value} = Select(last.rows_before, last.kwargs))

\* C15 as stated: get_or_create returns (existing instance, False) and adds
\* nothing when a row matching kwargs exists; otherwise it creates one
\* instance from kwargs updated with defaults, saves it and returns
\* (new instance, True).
C15_GetOrCreateAnyMatch ==
    (last.op = "get_or_create" /\ Queried) =>
        IF Select(last.rows_before, last.kwargs) /= {}
        THEN /\ last.exc = NoExc
             /\ last.value \in Select(last.rows_before, last.kwargs)
             /\ last.created = FALSE
             /\ rows = last.rows_before
             /\ OpsAmong(last.log, {"add"}) = <<>>
        ELSE /\ last.created = TRUE
             /\ last.value.name =
                    (IF KwHas(last.defaults, "name")
                     THEN KwGet(last.defaults, "name")
                     ELSE KwGet(last.kwargs, "name"))
             /\ last.value \notin last.rows_before
             /\ rows = last.rows_before \cup {last.value}
             /\ OpsAmong(last.log, {"add"}) = <<"add">>

\* C15 amended: get_or_create returns (existing instance, False) and adds
\* nothing when exactly one row matches kwargs; when more than one row
\* matches, the lookup's MultipleResultsFound propagates and nothing is
\* added; when no row matches it creates one instance from kwargs updated
\* with defaults (a key in both takes the value of defaults), saves it and
\* returns (new instance, True).
C15_GetOrCreate ==
    (last.op = "get_or_create" /\ Queried) =>
        LET matching == Select(last.rows_before, last.kwargs)
        IN  /\ Cardinality(matching) = 1 =>
                  /\ last.exc = NoExc
                  /\ matching = {last.value}
                  /\ last.created = FALSE
                  /\ rows = last.rows_before
                  /\ OpsAmong(last.log, {"add"}) = <<>>
            /\ Cardinality(matching) > 1 =>
                  /\ last.exc = MultipleResultsFound
                  /\ rows = last.rows_before
                  /\ OpsAmong(last.log, {"add"}) = <<>>
            /\ matching = {} =>
                  /\ last.exc = NoExc
                  /\ last.created = TRUE
                  /\ last.value.name =
                         (IF KwHas(last.defaults, "name")
                          THEN KwGet(last.defaults, "name")
                          ELSE KwGet(last.kwargs, "name"))
                  /\ last.value \notin last.rows_before
                  /\ rows = last.rows_before \cup {last.value}
                  /\ OpsAmong(last.log, {"add"}) = <<"add">>

\* get_or_create(defaults={'name': 'Jane'}, name='John') found no John in a
\* table that is not empty and created Jane.
C15_Witness ==
    /\ last.op = "get_or_create"
    /\ last.exc = NoExc
    /\ last.created = TRUE
    /\ last.rows_before /= {}
    /\ last.kwargs = <<<<"name", "John">>>>
    /\ last.defaults = <<<<"name", "Jane">>>>
    /\ last.value.name = "Jane"

\* C16: a successful Manager.create calls, on one session, add, flush,
\* refresh and commit, in this order and once each, and returns the added
\* instance with the id the database gave it; whenever commit is called,
\* flush and refresh have completed before it; the row is in the table
\* after a successful create only.
C16_CreateOrder ==
    last.op = "create" =>
        /\ last.exc = NoExc =>
              /\ OpsAmong(last.log, {"add", "flush", "refresh", "commit"})
                     = <<"add", "flush", "refresh", "commit">>
              /\ OneSession(last.log)
              /\ last.value.name = KwGet(last.kwargs, "name")
              /\ last.value \notin last.rows_before
              /\ rows = last.rows_before \cup {last.value}
        /\ \A i \in 1..Len(last.log) :
              last.log[i].op = "commit" =>
                  /\ \E j \in 1..(i - 1) : last.log[j].op = "flush"
                  /\ \E j \in 1..(i - 1) : last.log[j].op = "refresh"
        /\ last.exc /= NoExc => rows = last.rows_before

\* A create succeeded on a table that held a row.
C16_Witness ==
    /\ last.op = "create"
    /\ last.exc = NoExc
    /\ last.rows_before /= {}
    /\ Cardinality(rows) = Cardinality(last.rows_before) + 1

\* A step of the operation raised.
StepRaised == last.exc \in {DbError} \cup RdsConnectErrors

\* C17: if a step of Manager.create or of Base.save raises, the session's
\* rollback is called exactly once, commit is never called, and the
\* exception propagates.
C17_RollbackOnException ==
    (last.op \in {"create", "save"} /\ StepRaised) =>
        /\ OpsAmong(last.log, {"rollback"}) = <<"rollback">>
        /\ OpsAmong(last.log, {"commit"}) = <<>>

\* C18: a successful Base.save calls, on one session, merge and flush,
\* copies the columns, then calls commit, in this order and once each; it
\* returns the instance itself, whose every column then equals the merged
\* object's: its name is unchanged, its id is the one it had or, when it
\* had none, an id no row had before; and that row is in the table.
C18_SaveOrder ==
    (last.op = "save" /\ last.exc = NoExc) =>
        /\ OpsAmong(last.log, {"merge", "flush", "setattr", "commit"})
               = <<"merge", "flush", "setattr", "commit">>
        /\ OneSession(last.log)
        /\ last.returned = "self"
        /\ \A c \in Columns : last.value[c] = last.merged[c]
        /\ last.value.name = last.instance.name
        /\ last.value.id /= 0
        /\ IF last.instance.id = 0
           THEN last.value.id \notin {r.id : r \in last.rows_before}
           ELSE last.value.id = last.instance.id
        /\ [id |-> last.value.id, name |-> last.value.name] \in rows

\* A new instance was saved into a table that held a row and got an id.
C18_Witness ==
    /\ last.op = "save"
    /\ last.exc = NoExc
    /\ last.instance.id = 0
    /\ last.rows_before /= {}
    /\ last.value.id > 0

\* The model classes: those with a table name, not marked __no_table__.
ModelClasses ==
    {cls \in 1..Len(classes) :
        HasTablename(classes, cls) /\ ~NoTable(classes, cls)}

\* C19: for every model class, however derived, objects is a Manager whose
\* model_class is that very class; every Manager declared in a class body
\* is replaced by a new instance of the same type bound to that class; and
\* no two model classes share a manager instance.
C19_ManagerPerClass ==
    /\ \A cls \in ModelClasses :
          /\ GetManager(classes, cls, "objects") /= NoManager
          /\ GetManager(classes, cls, "objects").type \in ManagerTypes
          /\ GetManager(classes, cls, "objects").model_class = cls
    /\ \A cls \in 1..Len(classes) :
          \A i \in 1..Len(classes[cls].namespace.managers) :
              LET attr_name == classes[cls].namespace.managers[i][1]
                  manager_class == classes[cls].namespace.managers[i][2]
              IN  /\ GetManager(classes, cls, attr_name).type = manager_class
                  /\ GetManager(classes, cls, attr_name).model_class = cls
                  /\ GetManager(classes, cls, attr_name).made_at
                         = <<cls, attr_name, "bound">>
    /\ \A c, d \in ModelClasses :
          c /= d =>
              \A a, b \in ManagerAttrs :
                  GetManager(classes, c, a) /= NoManager =>
                      GetManager(classes, c, a) /= GetManager(classes, d, b)

\* C20: while a session context is active, get_session returns the
\* context's session: every session method a Manager operation calls is
\* called on it.
C20_ContextSessionUsed ==
    (last.op \in {"get", "create"} /\ last.ctx_before /= NoSession) =>
        \A i \in 1..Len(last.log) : last.log[i].session = last.ctx_before.id

----------------------------------------------------------------------------
(* Properties of the database configuration.                               *)

\* C21: get_database_config and get_engine raise RuntimeError "No database
\* configuration set" exactly when configure_database has never been
\* called, and the failed call leaves the stored configuration, engine and
\* session maker unchanged; after one or more configure_database calls,
\* get_database_config returns the database_url, debug flag and
\* engine_kwargs of the most recent call.
C21_NotConfiguredError ==
    last.op \in {"get_database_config", "get_engine"} =>
        /\ last.exc = NoConfigurationError
              <=> last.dbconfig_before.latest = NoConfig
        /\ last.exc.type = "RuntimeError" => last.exc = NoConfigurationError
        /\ last.exc = NoConfigurationError =>
              /\ dbconfig = last.dbconfig_before
              /\ dbconfig = NotConfigured
        /\ (last.op = "get_database_config"
            /\ last.dbconfig_before.latest /= NoConfig) =>
              /\ last.exc = NoExc
              /\ last.value = last.dbconfig_before.latest
              /\ dbconfig = last.dbconfig_before

\* get_engine raised the RuntimeError after the settings module was
\* changed, nothing being configured.
C21_Witness ==
    /\ last.op = "get_engine"
    /\ last.exc = NoConfigurationError
    /\ environ /= None

\* C22: between two consecutive configure_database calls every
\* get_async_session_maker call returns the same session maker, constructed
\* once, on the first call, for the engine get_engine returns and with
\* expire_on_commit=False; every get_engine call of the interval returns
\* the same engine.
C22_CachedSessionMaker ==
    /\ Cardinality(dbconfig.makers) <= 1
    /\ dbconfig.constructed <= 1
    /\ Cardinality(dbconfig.engines) <= 1
    /\ \A maker \in dbconfig.makers :
          /\ dbconfig.engines = {maker.engine}
          /\ maker.expire_on_commit = FALSE
    /\ (last.op = "get_async_session_maker" /\ last.exc = NoExc) =>
          /\ dbconfig.makers = {last.value}
          /\ dbconfig.constructed =
                (IF last.dbconfig_before.constructed = 0 THEN 1
                 ELSE last.dbconfig_before.constructed)
    /\ (last.op = "get_engine" /\ last.exc = NoExc) =>
          dbconfig.engines = {last.value}

\* The session maker was returned from the cache although the settings
\* module, and with it the engine factory, changed since it was made.
C22_Witness ==
    /\ last.op = "get_async_session_maker"
    /\ last.exc = NoExc
    /\ last.dbconfig_before._session_maker = last.value
    /\ last.env = ProxyOverride
    /\ last.value.engine.class /= RdsIamClass

\* C23: the first get_engine call that returns after a configure_database
\* call returns an engine created in that call, for the configured
\* database_url, with echo equal to debug and with the engine_kwargs given
\* to its creation.
C23_EngineForConfiguration ==
    (last.op = "get_engine" /\ last.exc = NoExc
     /\ last.dbconfig_before._engine = NoEngine) =>
        /\ last.created
        /\ last.value.url = last.dbconfig_before.latest.database_url
        /\ last.args.url = last.dbconfig_before.latest.database_url
        /\ last.args.echo = last.dbconfig_before.latest.debug
        /\ last.args.kwargs = last.dbconfig_before.latest.engine_kwargs

----------------------------------------------------------------------------
(* Properties of the engine cache.                                         *)

\* The factory instances of the class that have made an engine for the URL.
EnginesMade(insts, class, database_url) ==
    {i \in 1..Len(insts) :
        insts[i].class = class /\ database_url \in insts[i]._engines}

\* C26: for any sequence of create_engine calls through the global
\* engine_factory, interleaved with changes of DATABASE_ENGINE_FACTORY, at
\* most one engine is ever created per pair (factory class, database URL),
\* and a call returns the one engine of its pair.
C26_OneEnginePerClassAndUrl ==
    /\ \A i \in 1..Len(instances) :
          \A database_url \in instances[i]._engines :
              EnginesMade(instances, instances[i].class, database_url) = {i}
    /\ (last.op = "create_engine" /\ last.exc = NoExc) =>
          /\ last.value.url = last.database_url
          /\ EnginesMade(instances, last.value.class, last.database_url)
                = {last.value.factory}
          /\ last.created <=>
                EnginesMade(last.instances_before, last.value.class,
                            last.database_url) = {}

----------------------------------------------------------------------------
(* Properties of the session context.                                      *)

\* C27: whether the session_context blocks are nested or entered and left
\* in interleaved order, get_current_session never returns a session whose
\* context has been exited, and it returns None once every context has
\* been exited.
C27_NoStaleSession ==
    last.op = "get_current_session" =>
        /\ last.value /= NoSession =>
              last.value \in {last.frames[i].session :
                                 i \in 1..Len(last.frames)}
        /\ last.frames = <<>> => last.value = NoSession

----------------------------------------------------------------------------
(* Properties of concurrent get_or_create calls.                           *)

\* C28: for any interleaving of two concurrent get_or_create calls with
\* equal kwargs when no matching row exists beforehand, exactly one call
\* returns created=True, the other returns the same row with
\* created=False, and exactly one matching row exists afterwards.
C28_OneCreatesOneGets ==
    (Len(tasks) = 2 /\ \A i \in 1..2 : tasks[i].pc = "done") =>
        /\ \A i \in 1..2 : tasks[i].exc = NoExc
        /\ tasks[1].created /= tasks[2].created
        /\ tasks[1].value = tasks[2].value
        /\ Cardinality(Select(rows, tasks[1].kwargs)) = 1

----------------------------------------------------------------------------
(* Properties of the permission check.                                     *)

\* The key has_perm looks up: the object's own type, None without object.
LookupKey == <<IF last.obj = NoObject THEN None ELSE last.obj.type, last.perm>>

\* C24: has_perm returns True if and only if a checker is registered under
\* exactly (type(obj), perm), or (None, perm) without object, and that
\* checker returns True; it returns False when none is registered under
\* that key or the checker returns False, None or another value, whatever
\* is registered globally or for another type; the checker gets the user,
\* and the object if there is one.  A registration replaces the checker
\* under its key and leaves every other key as it was.
C24_ExactKeyDefaultDeny ==
    /\ last.op = "has_perm" =>
          /\ last.value = "True" <=>
                /\ LookupKey \in DOMAIN registry
                /\ registry[LookupKey] = "allow"
          /\ LookupKey \notin DOMAIN registry =>
                (last.value = "False" /\ last.exc = NoExc /\ last.args = <<>>)
          /\ (LookupKey \in DOMAIN registry
              /\ registry[LookupKey] \in {"deny", "no_opinion", "truthy"}) =>
                (last.value = "False" /\ last.exc = NoExc)
          /\ LookupKey \in DOMAIN registry =>
                last.args = (IF last.obj = NoObject THEN <<"user">>
                             ELSE <<"user", "obj">>)
    /\ last.op = "register" =>
          /\ registry[last.key] = last.checker_func
          /\ DOMAIN registry = DOMAIN last.registry_before \cup {last.key}
          /\ \A k \in DOMAIN registry \ {last.key} :
                registry[k] = last.registry_before[k]

\* A SubDocument was denied "view" although checkers allowing it are
\* registered for Document and globally.
C24_Witness ==
    /\ last.op = "has_perm"
    /\ last.obj = [type |-> "SubDocument"]
    /\ last.perm = "view"
    /\ last.value = "False"
    /\ <<"Document", "view">> \in DOMAIN registry
    /\ registry[<<"Document", "view">>] = "allow"
    /\ <<None, "view">> \in DOMAIN registry
    /\ registry[<<None, "view">>] = "allow"

----------------------------------------------------------------------------
(* ContentNegotiator against DefaultRenderer.                              *)

\* C25: every request that is_api_request classifies as an API request is
\* answered by DefaultRenderer.render through render_api (its result or the
\* JSON form of it), never with render_ui's full page, whatever its Accept
\* header is.
C25_ApiRequestsGetApiRendering ==
    (last.op = "render" /\ is_api_request(last.request)) =>
        /\ last.calls[1] = "render_api"
        /\ last.cls \in OverridesApi =>
              /\ "render_ui" \notin {last.calls[i] : i \in 1..Len(last.calls)}
              /\ last.exc = NoExc
              /\ \/ last.value = ApiComponent(last.kwargs)
                 \/ last.value = component_to_json(ApiComponent(last.kwargs))

----------------------------------------------------------------------------
(* Properties of the markup in the renderer's output.                      *)

RECURSIVE HasRaw(_)
\* A raw(...) node is somewhere in the tree.
HasRaw(t) ==
    \/ t.kind = "raw"
    \/ /\ t.kind = "list"
       /\ \E i \in 1..Len(t.items) : HasRaw(t.items[i])

\* The number of times the character occurs in the text.
Occurrences(text, c) == Cardinality({i \in 1..Len(text) : text[i] = c})

RECURSIVE SumOver(_, _)
\* The sum of the numbers of a sequence.
SumOver(f, n) == IF n = 0 THEN 0 ELSE f[n] + SumOver(f, n - 1)

RECURSIVE TagBrackets(_)
\* The number of '<' (and of '>') that the tags of the tree's elements
\* account for: one for a self-closing element, two for any other.
TagBrackets(t) ==
    IF IsElement(t)
    THEN (IF is_unary_tag(TagOf(t)) THEN 1
          ELSE 2 + SumOver([i \in 1..Len(ChildrenOf(t)) |->
                               TagBrackets(ChildrenOf(t)[i])],
                           Len(ChildrenOf(t))))
    ELSE 0

\* C30: for every input without a raw-wrapped node, lists of fewer than two
\* elements included, no '<' or '>' of a leaf value or of an attribute value
\* is in the output unescaped: the output's '<' and '>' are those of the
\* elements' tags.
C30_OnlyRawUnescaped ==
    (pc = "done" /\ ~HasRaw(tree)) =>
        /\ Occurrences(out, "<") = TagBrackets(tree)
        /\ Occurrences(out, ">") = TagBrackets(tree)

\* The last call executed the statement.
Executed == \E k \in 1..Len(last.log) : last.log[k].op = "execute"

\* C29: filter, options and order_by leave every existing queryset as it
\* was and add a new one with the receiver's statement extended by the
\* clause and no result cache; an await or iteration that returns executes
\* the statement exactly when the object has no cached list, caches its
\* result and returns the cached list (an empty one included), so that
\* each object executes at most once for its awaits and iterations; all()
\* and first() that return have executed the statement and leave every
\* cache as it was.
C29_CloneAndCache ==
    /\ \A i \in 1..Len(querysets) : querysets[i].executions <= 1
    /\ last.op = "derive" =>
        /\ Len(querysets) = Len(last.querysets_before) + 1
        /\ SubSeq(querysets, 1, Len(last.querysets_before))
               = last.querysets_before
        /\ querysets[Len(querysets)]._stmt
               = Append(last.querysets_before[last.receiver]._stmt,
                        last.clause)
        /\ querysets[Len(querysets)]._result_cache = NoCache
    /\ (last.op \in {"await", "aiter"} /\ last.exc = NoExc) =>
        /\ Executed
              <=> last.querysets_before[last.receiver]._result_cache = NoCache
        /\ ~Executed
              => last.value
                    = last.querysets_before[last.receiver]._result_cache
        /\ Executed
              => last.value.list
                    = ResultOf(rows, querysets[last.receiver]._stmt)
        /\ last.value.set
        /\ querysets[last.receiver]._result_cache = last.value
        /\ \A j \in 1..Len(querysets) :
               j /= last.receiver => querysets[j] = last.querysets_before[j]
    /\ (last.op \in {"all", "first"} /\ last.exc = NoExc) =>
        /\ Executed
        /\ querysets = last.querysets_before

\* A queryset whose first result was empty is awaited again after a row
\* that matches it was added: the cached empty list comes back without an
\* execution.
C29_Witness ==
    /\ last.op \in {"await", "aiter"}
    /\ last.exc = NoExc
    /\ ~Executed
    /\ last.value.list = <<>>
    /\ ResultOf(rows, querysets[last.receiver]._stmt) /= <<>>
    /\ Len(querysets) = MaxQuerySets
    /\ querysets[MaxQuerySets]._stmt /= <<>>

====
